---------------------------- MODULE Spec2Model ----------------------------
(***************************************************************************)
(* A model of the request-processing core of the agent runtime:            *)
(* ConversationManager, MetricsTracker, AgentRuntime.processRequest with   *)
(* its initialization gate, best-effort memory write, analysis step and    *)
(* the tool-calling loop of generateResponse.                              *)
(*                                                                         *)
(* Every `await` on a collaborator (memory engine, embeddings, speech,     *)
(* LLM, tool executor) is a suspension point: the request stops at a pc    *)
(* named after the pending call and the collaborator's answer (a value or  *)
(* a thrown Error) is the input of the next action of that request.        *)
(***************************************************************************)
EXTENDS Integers, Sequences, FiniteSets, TLC

(***************************************************************************)
(* Bounds of the model and program constants.                              *)
(***************************************************************************)
\* largest configured maxConversationHistory explored (besides the default)
MaxCap == 2
\* number of addMessage calls explored on a bare ConversationManager
MaxAppends == 4
\* the clock's reading when the runtime is constructed; the clock counts in
\* units of 150 000 ms (two and a half minutes)
ConstructionTime == 7
\* number of updateMetrics calls explored on a bare MetricsTracker
MaxUpdates == 3
\* longest tool catalog tried besides TOOL_REGISTRY itself
MaxCatalog == 3
\* processRequest calls completed after which a caller makes no further call
MaxRequests == 2
\* units of time the clock is followed after construction
MaxTicks == 3

\* updateClusteringIfNeeded: updateInterval = 5 * 60 * 1000 ms, two units of the clock
updateInterval == 2

\* DEFAULT_CONFIG.memory.maxConversationHistory
DefaultMaxConversationHistory == 50
\* const maxIterations = 5 in generateResponse
maxIterations == 5
\* context.conversationHistory.slice(-10) in buildConversationMessages
RecentHistoryWindow == 10

Requests == {"A", "B"}

\* the other calls in flight on the runtime: R calls updateClusteringIfNeeded,
\* K executes the create_clusters capability, and I is an initialize() begun by
\* an ensureInitialized() that its caller does not await
Tasks == Requests \cup {"R", "K", "I"}

Min(a, b) == IF a < b THEN a ELSE b
Max(a, b) == IF a > b THEN a ELSE b

(***************************************************************************)
(* Array.prototype.slice(start) of JavaScript, one argument: a negative    *)
(* start counts from the end, and -0 is 0, so slice(-0) is the whole array.*)
(***************************************************************************)
Slice(s, start) ==
    LET k == IF start < 0 THEN Max(Len(s) + start, 0) ELSE Min(start, Len(s))
    IN  SubSeq(s, k + 1, Len(s))

(***************************************************************************)
(* ConversationManager                                                     *)
(***************************************************************************)
\* addMessage(message): push, then history = history.slice(-maxHistory) when over the cap
addMessage(h, cap, message) ==
    LET pushed == Append(h, message)
    IN  IF Len(pushed) > cap THEN Slice(pushed, -cap) ELSE pushed

\* whether addMessage assigns this.history a new array (the slice), leaving the
\* array handed out earlier by getHistory() behind
addMessageReplacesArray(h, cap) == Len(h) + 1 > cap

(***************************************************************************)
(* MetricsTracker.  successRate is a rational <<numerator, denominator>>   *)
(* kept in lowest terms.                                                   *)
(***************************************************************************)
RECURSIVE GCD(_, _)
GCD(a, b) == IF b = 0 THEN a ELSE GCD(b, a % b)

Rat(n, d) == LET g == GCD(n, d) IN IF g = 0 THEN <<0, 1>> ELSE <<n \div g, d \div g>>

initializeMetrics ==
    [ totalRequests |-> 0,
      averageProcessingTime |-> <<0, 1>>,
      successRate |-> <<1, 1>>,
      capabilityUsage |-> {},
      memoryUsage |-> [conversationHistory |-> 0, workingMemory |-> 0, total |-> 0],
      errors |-> [total |-> 0, byType |-> {}] ]

\* a mutant of updateMetrics: the first sample seeds the moving average
MetricsTracker_updateMetrics_SeededByFirst(m, processingTime, success, conversationLength, workingMemorySize) ==
    LET n == m.totalRequests + 1
        successCount == IF success THEN 1 ELSE 0
        sr == m.successRate
        avg == m.averageProcessingTime
    IN  [ m EXCEPT
            !.totalRequests = n,
            !.averageProcessingTime =
                IF n = 1 THEN Rat(processingTime, 1)
                ELSE Rat(processingTime * avg[2] + 9 * avg[1], 10 * avg[2]),
            !.successRate = Rat(sr[1] * (n - 1) + successCount * sr[2], sr[2] * n),
            !.memoryUsage = [ conversationHistory |-> conversationLength,
                              workingMemory |-> workingMemorySize,
                              total |-> conversationLength + workingMemorySize ] ]

\* a mutant of updateMetrics: the seed 1.0 of successRate is averaged in as a sample
MetricsTracker_updateMetrics_SeedCounts(m, processingTime, success, conversationLength, workingMemorySize) ==
    LET n == m.totalRequests + 1
        successCount == IF success THEN 1 ELSE 0
        sr == m.successRate
        avg == m.averageProcessingTime
    IN  [ m EXCEPT
            !.totalRequests = n,
            !.averageProcessingTime = Rat(processingTime * avg[2] + 9 * avg[1], 10 * avg[2]),
            !.successRate = Rat(sr[1] * n + successCount * sr[2], sr[2] * (n + 1)),
            !.memoryUsage = [ conversationHistory |-> conversationLength,
                              workingMemory |-> workingMemorySize,
                              total |-> conversationLength + workingMemorySize ] ]

\* MetricsTracker.updateMetrics; alpha = 0.1 is 1/10 and 1 - alpha is 9/10
MetricsTracker_updateMetrics(m, processingTime, success, conversationLength, workingMemorySize) ==
    LET n == m.totalRequests + 1
        successCount == IF success THEN 1 ELSE 0
        sr == m.successRate
        avg == m.averageProcessingTime
    IN  [ m EXCEPT
            !.totalRequests = n,
            !.averageProcessingTime = Rat(processingTime * avg[2] + 9 * avg[1], 10 * avg[2]),
            !.successRate = Rat(sr[1] * (n - 1) + successCount * sr[2], sr[2] * n),
            !.memoryUsage = [ conversationHistory |-> conversationLength,
                              workingMemory |-> workingMemorySize,
                              total |-> conversationLength + workingMemorySize ] ]


(***************************************************************************)
(* Names: the tool catalog, the executors and the capability registry.     *)
(***************************************************************************)
\* TOOL_REGISTRY: the function names of the tool schemas
ToolRegistryNames ==
    { "agentic_web_search", "extract_web_content", "monitor_web_changes",
      "search_files", "create_file", "read_file", "modify_file", "list_directory",
      "delete_file", "move_file", "copy_file",
      "smart_git_operations", "automated_code_review" }

\* TOOL_EXECUTORS: the keys of the executor record
ToolExecutorNames ==
    { "search_files", "create_file", "read_file", "modify_file", "list_directory",
      "delete_file", "move_file", "copy_file",
      "agentic_web_search", "extract_web_content", "monitor_web_changes",
      "smart_git_operations", "automated_code_review" }

\* TOOL_REGISTRY, in the order of the array
TOOL_REGISTRY ==
    << "agentic_web_search", "extract_web_content", "monitor_web_changes",
       "search_files", "create_file", "read_file", "modify_file", "list_directory",
       "delete_file", "move_file", "copy_file",
       "smart_git_operations", "automated_code_review" >>

\* the capabilities registerCoreCapabilities adds after the tool capabilities
MemoryCapabilityIds ==
    { "query_memory", "create_clusters", "get_dual_graph_stats",
      "find_related_clusters", "get_contextual_memories", "analyze_entities" }

PlanningCapabilityIds == { "plan_task" }

\* registerCoreCapabilities: Map.set per capability, a later set of the same id wins
registerCoreCapabilities ==
    [ id \in ToolRegistryNames \cup MemoryCapabilityIds \cup PlanningCapabilityIds |->
        IF id \in PlanningCapabilityIds THEN "planning"
        ELSE IF id \in MemoryCapabilityIds THEN "memory"
        ELSE "tool" ]

\* the memory capabilities in the order registerCoreCapabilities sets them
MemoryCapabilityOrder ==
    << "query_memory", "create_clusters", "get_dual_graph_stats",
       "find_related_clusters", "get_contextual_memories", "analyze_entities" >>

\* toolToCapability: the capability's id is the tool's function name
toolToCapability(name) == [id |-> name, kind |-> "tool"]

\* getAllToolCapabilities over a catalog: TOOL_REGISTRY.map(toolToCapability)
getAllToolCapabilities(catalog) ==
    [ i \in 1..Len(catalog) |-> toolToCapability(catalog[i]) ]

\* the Map.set calls of registerCoreCapabilities, in order, for a tool catalog
coreRegistrations(catalog) ==
    getAllToolCapabilities(catalog)
      \o [ i \in 1..Len(MemoryCapabilityOrder) |->
             [id |-> MemoryCapabilityOrder[i], kind |-> "memory"] ]
      \o << [id |-> "plan_task", kind |-> "planning"] >>

\* metadata.confidence, in hundredths, of the results the execute of a
\* registered capability returns: 0 with success: false, else the literal of the
\* capability or, for a tool, of its executor
capabilityResultConfidences(id) ==
    CASE id = "query_memory" -> {0, 90}
      [] id = "create_clusters" -> {0, 95}
      [] id = "get_dual_graph_stats" -> {0, 100}
      [] id = "find_related_clusters" -> {0, 90}
      [] id = "get_contextual_memories" -> {0, 85}
      [] id = "analyze_entities" -> {0, 80}
      [] id = "plan_task" -> {70}
      [] OTHER -> {0, 85, 90, 95}

\* a mutant of MapSet: a key already present keeps its value
MapSet_KeepsFirst(map, key, value) ==
    [ k \in DOMAIN map \cup {key} |-> IF k \in DOMAIN map THEN map[k] ELSE value ]

\* Map.prototype.set
MapSet(map, key, value) ==
    [ k \in DOMAIN map \cup {key} |-> IF k = key THEN value ELSE map[k] ]

(***************************************************************************)
(* Texts                                                                   *)
(***************************************************************************)
FallbackResponse == "Unable to generate response after maximum iterations."
ApologyPrefix == "I apologize, but I encountered an error while processing your request: "
DefaultGreeting == "Hello! How can I help you today?"
TranscriptionErrorMarker == "__TRANSCRIPTION_ERROR__: whisper failed (audio: a.wav)"
InitFailedMessage == "Failed to initialize agent runtime"
QueryFailedMessage == "Memory query failed: engine error"
LLMFailedMessage == "LLM request failed"
NullAnalysisMessage == "null is not an object (evaluating 'analysis.intent')"
InputTypeError == "null is not an object (evaluating 'input.audio')"
ExecutorTypeError == "Cannot destructure property of undefined"

NoExecutorMessage(name) == "No executor for tool " \o name

\* JSON.stringify({ error: message })
JSONStringifyError(message) == "{\"error\":\"" \o message \o "\"}"

\* JSON.stringify of the result object an executor returned
JSONStringifyResult(result) ==
    "{\"success\":" \o (IF result.success THEN "true" ELSE "false")
        \o (IF result.success THEN "" ELSE ",\"error\":\"" \o result.error \o "\"")
        \o ",\"metadata\":{\"source\":\"" \o result.source \o "\"}}"

(***************************************************************************)
(* The environment: inputs of processRequest and answers of collaborators. *)
(***************************************************************************)
\* string | { text?: string; audio?: string }
Inputs ==
    { [kind |-> "string", value |-> "hi"],
      [kind |-> "string", value |-> ""],
      [kind |-> "text",   value |-> "what is up?"],
      [kind |-> "audio",  value |-> "a.wav"],
      [kind |-> "object", value |-> ""] }

\* what transcribeFromAudio resolves to: a result object or the error-marker string
Transcriptions ==
    { [isString |-> FALSE, transcribedText |-> "spoken words"],
      [isString |-> FALSE, transcribedText |-> ""],
      [isString |-> TRUE,  transcribedText |-> TranscriptionErrorMarker] }

\* the names the LLM asks for: with an executor, a memory capability, the
\* planning stub, and a name nothing registers
RequestedToolNames == { "read_file", "query_memory", "plan_task", "no_such_tool" }

\* generateText results: { reply, toolCalls }
LLMReplies ==
    { [reply |-> "",            toolCalls |-> <<>>],
      [reply |-> "the answer",  toolCalls |-> <<>>],
      [reply |-> "",            toolCalls |-> <<"read_file">>],
      [reply |-> "let me look", toolCalls |-> <<"query_memory", "read_file">>],
      [reply |-> "let me look", toolCalls |-> <<"no_such_tool", "plan_task">>] }

\* the replies used when several requests run interleaved
LLMRepliesShort ==
    { [reply |-> "the answer",  toolCalls |-> <<>>],
      [reply |-> "",            toolCalls |-> <<"read_file">>] }

\* what an executor of TOOL_EXECUTORS resolves to; it throws (a TypeError) only
\* when destructuring undefined arguments, everything else is caught inside
ExecutorResults(name) ==
    { [success |-> TRUE,  error |-> "",            source |-> name],
      [success |-> FALSE, error |-> "not found",   source |-> name] }

\* generateText results that ask for no tool call and for two
LLMRepliesFair ==
    { [reply |-> "the answer",  toolCalls |-> <<>>],
      [reply |-> "let me look", toolCalls |-> <<"query_memory", "read_file">>] }

\* numbers of clusters createClusters resolves to
ClusterCounts == {0, 2}

(***************************************************************************)
(* State                                                                   *)
(***************************************************************************)
VARIABLES
    maxHistory,         \* ConversationManager.maxHistory (config.memory.maxConversationHistory)
    history,            \* ConversationManager.history
    appended,           \* every message given to addMessage since construction or clear()
    memory,             \* AgentRuntime.memory: 0 is null, k the k-th instance created
    memoryInstances,    \* how many times createMemoryInstance resolved
    isInitialized,      \* AgentRuntime.isInitialized
    toolExecutors,      \* the keys of AgentRuntime.toolExecutors
    capabilities,       \* AgentRuntime.capabilities: id -> kind of capability
    registrations,      \* registerCoreCapabilities: the capabilities it still has to set
                        \* (todo) and those it has set, in order (done)
    clusters,           \* AgentRuntime.clusters.length
    clusteringEnabled,  \* AgentRuntime.clusteringEnabled
    lastClusteringUpdate, \* AgentRuntime.lastClusteringUpdate, a clock reading
    now,                \* the clock read by Date.now() and new Date()
    metrics,            \* MetricsTracker.metrics
    calls,              \* the updateMetrics calls made so far: how many, how many with success
    snapshot,           \* the object the last getMetrics() returned: its own fields
    req                 \* per processRequest call: its position and its locals

managerVars == <<maxHistory, history, appended>>
registryVars == <<capabilities, registrations>>
runtimeVars == <<memory, memoryInstances, isInitialized, toolExecutors, registryVars,
                 clusters, clusteringEnabled, lastClusteringUpdate, now>>
trackerVars == <<metrics, calls, snapshot>>
vars == <<maxHistory, history, appended, memory, memoryInstances, isInitialized,
          toolExecutors, capabilities, registrations, clusters, clusteringEnabled,
          lastClusteringUpdate, now, metrics, calls, snapshot, req>>

\* an absent value (null / undefined) is <<>>, a present one <<v>>
Null == <<>>
Some(v) == <<v>>

\* JavaScript's !value for a string | null
IsFalsy(v) == v = Null \/ v = Some("")

NoResponse ==
    [ kind |-> "none", content |-> "", confidence |-> <<0, 1>>, steps |-> <<>>,
      capabilitiesUsed |-> Null ]

\* the locals of a processRequest call that has not started
IdleRequest ==
    [ pc |-> "idle",
      input |-> [kind |-> "string", value |-> ""],
      startTime |-> 0,             \* processRequest: startTime
      rateLimited |-> FALSE,       \* updateClusteringIfNeeded was called while disabled or
                                   \* within the interval (kept by the initialize() it began)
      content |-> "",              \* processedInput.content
      hasContext |-> FALSE,        \* createAgentContext has run
      ctxLive |-> FALSE,           \* context.conversationHistory is the manager's current array
      ctxSnap |-> <<>>,            \* else: the array it still refers to
      queryEmbedding |-> FALSE,    \* analyzeInput: queryEmbedding is defined
      addMemoryCalls |-> 0,        \* storeInMemory: addMemory calls made
      stored |-> FALSE,            \* storeInMemory: an addMemory call resolved
      analysis |-> Null,           \* the analysis ReasoningStep
      messages |-> <<>>,           \* generateResponse: messages
      baseLen |-> 0,               \* messages.length before the first round-trip
      iterations |-> 0,            \* generateResponse: iterations
      llmCalls |-> 0,              \* generateText calls made
      pending |-> <<>>,            \* tool calls of the current reply not yet executed
      running |-> <<>>,            \* tool calls whose executor was started and has not settled
      replies |-> <<>>,            \* the replies generateText resolved to, in order
      finalResponse |-> Null,      \* generateResponse: finalResponse
      responseStep |-> Null,       \* the ReasoningStep generateResponse returned
      thrown |-> Null,             \* the error that reached processRequest's catch
      outcome |-> "pending",       \* "returned" or "raised" once the call has settled
      response |-> NoResponse ]    \* the AgentResponse returned

\* the record old with the fields of new overwritten
Merge(old, new) == new @@ old

ConfiguredCaps == (0..MaxCap) \cup {DefaultMaxConversationHistory}

\* the field initialisers of AgentRuntime and what the constructor builds
\* before it registers the capabilities
fieldsInitialized ==
    /\ history = <<>>
    /\ appended = <<>>
    /\ memory = 0
    /\ memoryInstances = 0
    /\ isInitialized = FALSE
    /\ toolExecutors = {}
    /\ clusters = 0
    /\ clusteringEnabled = TRUE
    /\ now = ConstructionTime
    /\ lastClusteringUpdate = ConstructionTime
    /\ metrics = initializeMetrics
    /\ calls = [total |-> 0, successful |-> 0]
    /\ snapshot = Null
    /\ req = [r \in Tasks |-> IdleRequest]

\* the state after new AgentRuntime(config)
Init ==
    /\ maxHistory \in ConfiguredCaps
    /\ capabilities = registerCoreCapabilities
    /\ registrations = [todo |-> <<>>, done |-> coreRegistrations(TOOL_REGISTRY)]
    /\ fieldsInitialized

\* tool names of the catalogs tried: one that is a tool only, and two that
\* registerCoreCapabilities also sets itself
CatalogNames == {"read_file", "query_memory", "plan_task"}

\* the tool catalogs registerCoreCapabilities is run on
Catalogs ==
    {TOOL_REGISTRY} \cup UNION { [1..k -> CatalogNames] : k \in 0..MaxCatalog }

\* the constructor is about to call registerCoreCapabilities: the map is empty
InitRegistry ==
    /\ maxHistory = DefaultMaxConversationHistory
    /\ capabilities = << >>
    /\ \E catalog \in Catalogs :
          registrations = [todo |-> coreRegistrations(catalog), done |-> <<>>]
    /\ fieldsInitialized

\* registerCoreCapabilities: the next this.capabilities.set(id, capability)
RegisterCapability ==
    /\ registrations.todo # <<>>
    /\ LET capability == Head(registrations.todo)
       IN  /\ capabilities' = MapSet(capabilities, capability.id, capability.kind)
           /\ registrations' = [ todo |-> Tail(registrations.todo),
                                 done |-> Append(registrations.done, capability) ]
    /\ UNCHANGED <<managerVars, memory, memoryInstances, isInitialized, toolExecutors,
                   clusters, clusteringEnabled, lastClusteringUpdate, now, trackerVars, req>>

NextRegistry == RegisterCapability

SpecRegistry == InitRegistry /\ [][NextRegistry]_vars


(***************************************************************************)
(* ConversationManager as an object of its own                             *)
(***************************************************************************)
ConversationMessages ==
    { [role |-> "user", content |-> "hi", session |-> "A"],
      [role |-> "assistant", content |-> "hello", session |-> "A"],
      [role |-> "user", content |-> "bye", session |-> "B"] }

\* the effect of conversationManager.addMessage(message) on the manager and on
\* the contexts that hold the array getHistory() returned
ManagerAppend(rqs, message) ==
    LET pushed == Append(history, message)
        replaced == addMessageReplacesArray(history, maxHistory)
    IN  [ history |-> addMessage(history, maxHistory, message),
          appended |-> Append(appended, message),
          req |-> [ q \in Tasks |->
                      IF replaced /\ rqs[q].ctxLive
                      THEN [rqs[q] EXCEPT !.ctxLive = FALSE, !.ctxSnap = pushed]
                      ELSE rqs[q] ] ]

\* ConversationManager.addMessage called directly
CMAddMessage(message) ==
    /\ Len(appended) < MaxAppends
    /\ history' = addMessage(history, maxHistory, message)
    /\ appended' = Append(appended, message)
    /\ UNCHANGED <<maxHistory, runtimeVars, trackerVars, req>>

\* ConversationManager.clear called directly
CMClear ==
    /\ history # <<>>
    /\ history' = <<>>
    /\ appended' = <<>>
    /\ UNCHANGED <<maxHistory, runtimeVars, trackerVars, req>>

NextCM == (\E message \in ConversationMessages : CMAddMessage(message)) \/ CMClear

SpecCM == Init /\ [][NextCM]_vars

(***************************************************************************)
(* MetricsTracker as an object of its own                                  *)
(***************************************************************************)
\* one more updateMetrics call noted
recordCall(c, success) ==
    [ total |-> c.total + 1,
      successful |-> c.successful + (IF success THEN 1 ELSE 0) ]

\* processing times handed to updateMetrics
ProcessingTimes == {100, 200}

\* conversation lengths handed to updateMetrics
ConversationLengths == {0, 3}

\* MetricsTracker.updateMetrics called directly
MTUpdateMetrics(processingTime, success, conversationLength) ==
    /\ calls.total < MaxUpdates
    /\ metrics' = MetricsTracker_updateMetrics(metrics, processingTime, success,
                                               conversationLength, 0)
    /\ calls' = recordCall(calls, success)
    /\ UNCHANGED <<managerVars, runtimeVars, snapshot, req>>

\* getMetrics(): { ...this.metrics }, a new object with its own copies of the
\* number fields; memoryUsage, errors and capabilityUsage are the tracker's own
\* objects, which the new object refers to
GetMetrics ==
    /\ snapshot' = Some([ totalRequests |-> metrics.totalRequests,
                          averageProcessingTime |-> metrics.averageProcessingTime,
                          successRate |-> metrics.successRate ])
    /\ UNCHANGED <<managerVars, runtimeVars, metrics, calls, req>>

\* the value a caller of getMetrics() holds, as the caller reads it now
returnedMetrics ==
    [ totalRequests |-> snapshot[1].totalRequests,
      averageProcessingTime |-> snapshot[1].averageProcessingTime,
      successRate |-> snapshot[1].successRate,
      capabilityUsage |-> metrics.capabilityUsage,
      memoryUsage |-> metrics.memoryUsage,
      errors |-> metrics.errors ]

\* the caller assigns a number field of the value getMetrics() returned
WriteReturnedField ==
    /\ snapshot # Null
    /\ snapshot' = Some([snapshot[1] EXCEPT !.totalRequests = 0])
    /\ UNCHANGED <<managerVars, runtimeVars, metrics, calls, req>>

\* the caller writes into a nested object of the value getMetrics() returned:
\* memoryUsage.total = 0, errors.total = 1, capabilityUsage.set(...) or
\* errors.byType.set(...)
WriteReturnedNested(field) ==
    /\ snapshot # Null
    /\ metrics' =
          CASE field = "memoryUsage" ->
                 [metrics EXCEPT !.memoryUsage.total = 0]
            [] field = "errors" ->
                 [metrics EXCEPT !.errors.total = 1]
            [] field = "capabilityUsage" ->
                 [metrics EXCEPT !.capabilityUsage = @ \cup {"read_file"}]
            [] field = "errors.byType" ->
                 [metrics EXCEPT !.errors.byType = @ \cup {"TOOL_ERROR"}]
    /\ metrics' # metrics
    /\ UNCHANGED <<managerVars, runtimeVars, calls, snapshot, req>>

NestedFields == {"memoryUsage", "errors", "capabilityUsage", "errors.byType"}

NextMT ==
    \/ \E processingTime \in ProcessingTimes : \E success \in BOOLEAN :
       \E conversationLength \in ConversationLengths :
          MTUpdateMetrics(processingTime, success, conversationLength)
    \/ GetMetrics
    \/ WriteReturnedField
    \/ \E field \in NestedFields : WriteReturnedNested(field)

SpecMT == Init /\ [][NextMT]_vars

(***************************************************************************)
(* AgentRuntime: helpers of processRequest                                 *)
(***************************************************************************)
\* AgentRuntime.updateMetrics: history length and workingMemory.size go to the
\* tracker (nothing ever writes workingMemory, its size is 0)
updateMetrics(m, processingTime, success, hist) ==
    MetricsTracker_updateMetrics(m, processingTime, success, Len(hist), 0)

\* processRequest returns (or throws): its locals and those of the functions it
\* called are gone, the call keeps its outcome and what it counted
Settled(rq, outcome, response) ==
    Merge(rq, [ pc |-> "done", outcome |-> outcome, response |-> response,
                hasContext |-> FALSE, ctxLive |-> FALSE, ctxSnap |-> <<>>,
                queryEmbedding |-> FALSE, analysis |-> Null,
                messages |-> <<>>, baseLen |-> 0, iterations |-> 0,
                pending |-> <<>>, running |-> <<>>,
                replies |-> <<>>, finalResponse |-> Null, responseStep |-> Null ])

\* the errorResponse built in processRequest's catch
ErrorResponse(message) ==
    [ kind |-> "text", content |-> ApologyPrefix \o message,
      confidence |-> <<0, 1>>, steps |-> <<>>,
      capabilitiesUsed |-> Null ]     \* the apology has no capabilitiesUsed

\* a mutant of the catch: the failure is counted in metrics.errors
ProcessRequestCatch_CountsError(r, rq, message) ==
    /\ metrics' = [updateMetrics(metrics, rq.startTime, FALSE, history)
                     EXCEPT !.errors.total = @ + 1]
    /\ calls' = recordCall(calls, FALSE)
    /\ UNCHANGED snapshot
    /\ req' = [req EXCEPT ![r] =
                 Settled(Merge(rq, [thrown |-> Some(message)]),
                         "returned", ErrorResponse(message))]

\* a mutant of the catch: a failed request is not counted in the metrics
ProcessRequestCatch_NoMetrics(r, rq, message) ==
    /\ UNCHANGED trackerVars
    /\ req' = [req EXCEPT ![r] =
                 Settled(Merge(rq, [thrown |-> Some(message)]),
                         "returned", ErrorResponse(message))]

\* a mutant of the catch: the error is thrown on to the caller
ProcessRequestCatch_Rethrow(r, rq, message) ==
    /\ metrics' = updateMetrics(metrics, rq.startTime, FALSE, history)
    /\ calls' = recordCall(calls, FALSE)
    /\ UNCHANGED snapshot
    /\ req' = [req EXCEPT ![r] =
                 Settled(Merge(rq, [thrown |-> Some(message)]), "raised", NoResponse)]

\* processRequest's catch (error): update the metrics with success = false and
\* return the apology; rq holds the locals at the time of the throw
ProcessRequestCatch(r, rq, message) ==
    /\ metrics' = updateMetrics(metrics, rq.startTime, FALSE, history)
    /\ calls' = recordCall(calls, FALSE)
    /\ UNCHANGED snapshot
    /\ req' = [req EXCEPT ![r] =
                 Settled(Merge(rq, [thrown |-> Some(message)]),
                         "returned", ErrorResponse(message))]

\* for (const [name, executor] of Object.entries(TOOL_EXECUTORS)) toolExecutors.set(...)
populateToolExecutors(executors) == executors \cup ToolExecutorNames

\* an input outside the declared type: null, which is no string and has no
\* property to read
MalformedInput == [kind |-> "null", value |-> ""]

\* processInput for an input that is not audio
processInputContent(in) ==
    IF in.kind = "string" THEN in.value
    ELSE IF in.value # "" THEN in.value
    ELSE DefaultGreeting

\* processInput: the content taken from what transcribeFromAudio resolved to
transcriptionContent(t) ==
    IF t.isString THEN t.transcribedText
    ELSE IF t.transcribedText # "" THEN t.transcribedText
    ELSE "Audio transcription failed"

\* context.conversationHistory as the request sees it now
ctxView(rq) == IF rq.ctxLive THEN history ELSE rq.ctxSnap

RECURSIVE historyMessages(_)
\* buildConversationMessages: the user / assistant turns of the recent history
historyMessages(h) ==
    IF h = <<>> THEN <<>>
    ELSE LET m == Head(h)
         IN  (IF m.role \in {"user", "assistant"}
              THEN <<[role |-> m.role, content |-> m.content]>>
              ELSE <<>>) \o historyMessages(Tail(h))

\* buildConversationMessages(context, analysisStep); the context message is never
\* null for an analysis step, its intent is always a non-empty string
buildConversationMessages(h) ==
    <<[role |-> "system", content |-> "You are Uncle Bob"]>>
      \o historyMessages(Slice(h, -RecentHistoryWindow))
      \o <<[role |-> "system", content |-> "Current analysis"]>>

\* the weight of a step type in calculateOverallConfidence, in tenths;
\* weights[type] || 0.2 turns the 0 of 'error' into 0.2
stepWeight(type) ==
    LET w == CASE type = "analysis" -> 3
               [] type = "reflection" -> 1
               [] type = "error" -> 0
               [] OTHER -> 2
    IN  IF w = 0 THEN 2 ELSE w

RECURSIVE weightedSum(_)
weightedSum(steps) ==
    IF steps = <<>> THEN 0
    ELSE Head(steps).confidence * stepWeight(Head(steps).type) + weightedSum(Tail(steps))

RECURSIVE totalWeight(_)
totalWeight(steps) ==
    IF steps = <<>> THEN 0 ELSE stepWeight(Head(steps).type) + totalWeight(Tail(steps))

\* a mutant of calculateOverallConfidence: the weighted sum is not divided by the
\* total weight (weights in tenths)
calculateOverallConfidence_NotNormalized(steps) ==
    IF steps = <<>> THEN <<0, 1>>
    ELSE Rat(weightedSum(steps), 100 * 3)

\* calculateOverallConfidence; step confidences are in hundredths
calculateOverallConfidence(steps) ==
    IF steps = <<>> THEN <<0, 1>>
    ELSE IF totalWeight(steps) > 0
         THEN Rat(weightedSum(steps), 100 * totalWeight(steps))
         ELSE <<0, 1>>

(***************************************************************************)
(* generateResponse: the tool-calling loop                                 *)
(***************************************************************************)
\* a mutant of the loop condition: one round-trip too many
LoopContinues_OffByOne(iterations) == iterations <= maxIterations

\* while (iterations < maxIterations)
LoopContinues(iterations) == iterations < maxIterations

\* a mutant of the exit: no fallback string is put in place of a missing response
finalResponseAfterLoop_NoFallback(finalResponse) ==
    IF finalResponse = Null THEN "" ELSE finalResponse[1]

\* if (!finalResponse) finalResponse = 'Unable to generate response ...'
finalResponseAfterLoop(finalResponse) ==
    IF IsFalsy(finalResponse) THEN FallbackResponse ELSE finalResponse[1]

\* after the loop: the fallback when finalResponse is falsy, then the reflection
\* step is returned to reasonAndRespond
ExitLoop(rq) ==
    LET final == finalResponseAfterLoop(rq.finalResponse)
    IN  Merge(rq, [ pc |-> "finalize",
                    finalResponse |-> Some(final),
                    responseStep |-> Some([ type |-> "reflection", confidence |-> 95,
                                            response |-> final ]) ])

\* the head of the while loop: iterations++ and the generateText call, or the exit
LoopHead(rq) ==
    IF LoopContinues(rq.iterations)
    THEN Merge(rq, [ pc |-> "generateText",
                     iterations |-> rq.iterations + 1,
                     llmCalls |-> rq.llmCalls + 1 ])
    ELSE ExitLoop(rq)

\* generateResponse up to its first await
EnterLoop(rq, h) ==
    LoopHead(Merge(rq, [ messages |-> buildConversationMessages(h),
                         baseLen |-> Len(buildConversationMessages(h)),
                         iterations |-> 0,
                         finalResponse |-> Null ]))

\* a mutant of the reply handling: the raw reply is recorded only when it is final
AfterReply_NoAssistantOnToolCalls(rq, reply) ==
    IF reply.toolCalls # <<>>
    THEN Merge(rq, [ replies |-> Append(rq.replies, reply),
                     pending |-> reply.toolCalls, pc |-> "toolCall" ])
    ELSE ExitLoop(Merge(rq, [ messages |-> Append(rq.messages,
                                  [role |-> "assistant", content |-> reply.reply]),
                              replies |-> Append(rq.replies, reply),
                              finalResponse |-> Some(reply.reply) ]))

\* generateText resolved: push the assistant message; with tool calls go on to
\* execute them, without take the reply as final and break
AfterReply(rq, reply) ==
    LET pushed == Merge(rq, [ messages |-> Append(rq.messages,
                                  [role |-> "assistant", content |-> reply.reply]),
                              replies |-> Append(rq.replies, reply) ])
    IN  IF reply.toolCalls # <<>>
        THEN Merge(pushed, [pending |-> reply.toolCalls, pc |-> "toolCall"])
        ELSE ExitLoop(Merge(pushed, [finalResponse |-> Some(reply.reply)]))

\* a mutant of the for loop: a failed call ends the loop over the reply's tool calls
AfterToolCall_StopOnError(rq, content, failed) ==
    LET pushed == Merge(rq, [ messages |-> Append(rq.messages,
                                  [role |-> "tool", content |-> content]),
                              pending |-> IF failed THEN <<>> ELSE Tail(rq.pending) ])
    IN  IF pushed.pending = <<>> THEN LoopHead(pushed)
        ELSE Merge(pushed, [pc |-> "toolCall"])

\* one tool call of the reply has settled: push its tool message, then the next
\* call of the reply, or the next iteration
AfterToolCall(rq, content, failed) ==
    LET pushed == Merge(rq, [ messages |-> Append(rq.messages,
                                  [role |-> "tool", content |-> content]),
                              pending |-> Tail(rq.pending) ])
    IN  IF pushed.pending = <<>> THEN LoopHead(pushed)
        ELSE Merge(pushed, [pc |-> "toolCall"])

\* a mutant of the lookup: the capability registry is consulted
hasExecutor_ViaRegistry(name) == name \in DOMAIN capabilities

\* executeToolCall: this.toolExecutors.get(name) is defined
hasExecutor(name) == name \in toolExecutors

\* analyzeInput returned the analysis step; reasonAndRespond goes on to
\* generateResponse with the context's history h
AnalysisDone(rq, h, contextualMemories, relatedClusters) ==
    EnterLoop(Merge(rq, [ analysis |-> Some([ type |-> "analysis", confidence |-> 80,
                                               contextualMemories |-> contextualMemories,
                                               relatedClusters |-> relatedClusters ]) ]),
              h)

\* analyzeInput after the contextual memories: findRelatedClusters is awaited when
\* clustering is enabled, the query embedding exists and there are clusters
AfterContextualMemories(rq, h, contextualMemories) ==
    IF clusteringEnabled /\ rq.queryEmbedding /\ clusters > 0
    THEN Merge(rq, [ pc |-> "findRelatedClusters",
                     analysis |-> Some([ type |-> "analysis", confidence |-> 80,
                                         contextualMemories |-> contextualMemories,
                                         relatedClusters |-> 0 ]) ])
    ELSE AnalysisDone(rq, h, contextualMemories, 0)

(***************************************************************************)
(* processRequest, step by step                                            *)
(***************************************************************************)
Local(r, changes) == req' = [req EXCEPT ![r] = Merge(req[r], changes)]

\* a mutant of StartRequest: initialize() does not look at the flag
StartRequest_IgnoresFlag(r, in) ==
    /\ req[r].pc = "idle"
    /\ Local(r, [ input |-> in, startTime |-> now, pc |-> "createMemoryInstance" ])
    /\ UNCHANGED <<managerVars, runtimeVars, trackerVars>>

\* processRequest(input) is called; ensureInitialized calls initialize() unless
\* the flag is set, and initialize() awaits createMemoryInstance
StartRequest(r, in) ==
    /\ req[r].pc = "idle"
    /\ Local(r, [ input |-> in,
                  startTime |-> now,
                  pc |-> IF isInitialized THEN "processInput" ELSE "createMemoryInstance" ])
    /\ UNCHANGED <<managerVars, runtimeVars, trackerVars>>

\* where the caller of initialize() goes on: processRequest at processInput; an
\* initialize() nobody awaits has no continuation
afterInitialize(r) == IF r \in Requests THEN "processInput" ELSE "done"

\* a mutant of CreateMemoryReturns: the flag is looked at again after the await
\* and an instance created meanwhile is kept
CreateMemoryReturns_ChecksAgain(r) ==
    /\ req[r].pc = "createMemoryInstance"
    /\ memoryInstances' = IF isInitialized THEN memoryInstances ELSE memoryInstances + 1
    /\ memory' = IF isInitialized THEN memory ELSE memoryInstances + 1
    /\ isInitialized' = TRUE
    /\ IF clusteringEnabled
       THEN /\ Local(r, [pc |-> "createClusters"])
            /\ UNCHANGED toolExecutors
       ELSE /\ Local(r, [pc |-> afterInitialize(r)])
            /\ toolExecutors' = populateToolExecutors(toolExecutors)
    /\ UNCHANGED <<managerVars, registryVars, clusters, clusteringEnabled,
                   lastClusteringUpdate, now, trackerVars>>

\* initialize(): createMemoryInstance resolved; the flag is set, then
\* initializeClustering awaits createClusters unless clustering is disabled
CreateMemoryReturns(r) ==
    /\ req[r].pc = "createMemoryInstance"
    /\ memoryInstances' = memoryInstances + 1
    /\ memory' = memoryInstances + 1
    /\ isInitialized' = TRUE
    /\ IF clusteringEnabled
       THEN /\ Local(r, [pc |-> "createClusters"])
            /\ UNCHANGED toolExecutors
       ELSE /\ Local(r, [pc |-> afterInitialize(r)])
            /\ toolExecutors' = populateToolExecutors(toolExecutors)
    /\ UNCHANGED <<managerVars, registryVars, clusters, clusteringEnabled,
                   lastClusteringUpdate, now, trackerVars>>

\* initialize(): createMemoryInstance rejected; the AgentError reaches the catch
CreateMemoryThrows(r) ==
    /\ req[r].pc = "createMemoryInstance"
    /\ ProcessRequestCatch(r, req[r], InitFailedMessage)
    /\ UNCHANGED <<managerVars, runtimeVars>>

\* initializeClustering: createClusters resolved; then the executors are populated
InitClustersReturn(r, n) ==
    /\ req[r].pc = "createClusters"
    /\ clusters' = n
    /\ lastClusteringUpdate' = now
    /\ toolExecutors' = populateToolExecutors(toolExecutors)
    /\ Local(r, [pc |-> afterInitialize(r)])
    /\ UNCHANGED <<managerVars, memory, memoryInstances, isInitialized, registryVars,
                   clusteringEnabled, now, trackerVars>>

\* a mutant of InitClustersThrow: the failure of the bootstrap fails initialize()
InitClustersThrow_Propagates(r) ==
    /\ req[r].pc = "createClusters"
    /\ ProcessRequestCatch(r, req[r], InitFailedMessage)
    /\ UNCHANGED <<managerVars, runtimeVars>>

\* initializeClustering: createClusters rejected; clustering is switched off
InitClustersThrow(r) ==
    /\ req[r].pc = "createClusters"
    /\ clusteringEnabled' = FALSE
    /\ toolExecutors' = populateToolExecutors(toolExecutors)
    /\ Local(r, [pc |-> afterInitialize(r)])
    /\ UNCHANGED <<managerVars, memory, memoryInstances, isInitialized, registryVars,
                   clusters, lastClusteringUpdate, now, trackerVars>>

\* processInput: text is taken as it is, audio goes to transcribeFromAudio
ProcessInput(r) ==
    /\ req[r].pc = "processInput"
    /\ req[r].input # MalformedInput
    /\ IF req[r].input.kind = "audio"
       THEN Local(r, [pc |-> "transcribeFromAudio"])
       ELSE Local(r, [pc |-> "recordTurn", content |-> processInputContent(req[r].input)])
    /\ UNCHANGED <<managerVars, runtimeVars, trackerVars>>

\* processInput handed null: typeof null is 'object' and reading input.audio
\* throws a TypeError, which reaches processRequest's catch
ProcessInputThrows(r) ==
    /\ req[r].pc = "processInput"
    /\ req[r].input = MalformedInput
    /\ ProcessRequestCatch(r, req[r], InputTypeError)
    /\ UNCHANGED <<managerVars, runtimeVars>>

\* a mutant of TranscribeReturns: a failed transcription is thrown
TranscribeReturns_Throws(r, t) ==
    /\ req[r].pc = "transcribeFromAudio"
    /\ IF t.isString
       THEN ProcessRequestCatch(r, req[r], t.transcribedText)
       ELSE /\ Local(r, [pc |-> "recordTurn", content |-> transcriptionContent(t)])
            /\ UNCHANGED trackerVars
    /\ UNCHANGED <<managerVars, runtimeVars>>

\* transcribeFromAudio resolved (it never rejects)
TranscribeReturns(r, t) ==
    /\ req[r].pc = "transcribeFromAudio"
    /\ Local(r, [pc |-> "recordTurn", content |-> transcriptionContent(t)])
    /\ UNCHANGED <<managerVars, runtimeVars, trackerVars>>

\* a mutant of RecordUserTurn: the user turn is not appended before the memory
\* write
RecordUserTurn_NotAppended(r) ==
    /\ req[r].pc = "recordTurn"
    /\ Local(r, [ hasContext |-> TRUE, ctxLive |-> TRUE,
                  pc |-> IF memory # 0 THEN "store_generateEmbeddings"
                         ELSE "analyze_generateEmbeddings" ])
    /\ UNCHANGED <<managerVars, runtimeVars, trackerVars>>

\* createAgentContext, addToConversationHistory('user', ...), and storeInMemory up
\* to its await of generateEmbeddings (it returns at once without a memory)
RecordUserTurn(r) ==
    /\ req[r].pc = "recordTurn"
    /\ LET withCtx == [req EXCEPT ![r] = Merge(@, [hasContext |-> TRUE, ctxLive |-> TRUE])]
           after == ManagerAppend(withCtx,
                        [role |-> "user", content |-> req[r].content, session |-> r])
       IN  /\ history' = after.history
           /\ appended' = after.appended
           /\ req' = [after.req EXCEPT ![r] =
                        Merge(@, [pc |-> IF memory # 0 THEN "store_generateEmbeddings"
                                         ELSE "analyze_generateEmbeddings"])]
    /\ UNCHANGED <<maxHistory, runtimeVars, trackerVars>>

\* storeInMemory: generateEmbeddings resolved, addMemory is called with embeddings
StoreEmbeddingsReturn(r) ==
    /\ req[r].pc = "store_generateEmbeddings"
    /\ Local(r, [pc |-> "store_addMemory", addMemoryCalls |-> req[r].addMemoryCalls + 1])
    /\ UNCHANGED <<managerVars, runtimeVars, trackerVars>>

\* storeInMemory: generateEmbeddings rejected, the catch calls addMemory without
StoreEmbeddingsThrow(r) ==
    /\ req[r].pc = "store_generateEmbeddings"
    /\ Local(r, [pc |-> "store_addMemoryFallback",
                 addMemoryCalls |-> req[r].addMemoryCalls + 1])
    /\ UNCHANGED <<managerVars, runtimeVars, trackerVars>>

\* storeInMemory: addMemory (either call) resolved; reasonAndRespond and
\* analyzeInput start, up to the await of generateEmbeddings
AddMemoryReturns(r) ==
    /\ req[r].pc \in {"store_addMemory", "store_addMemoryFallback"}
    /\ Local(r, [pc |-> "analyze_generateEmbeddings", stored |-> TRUE])
    /\ UNCHANGED <<managerVars, runtimeVars, trackerVars>>

\* storeInMemory: the addMemory with embeddings rejected, the catch tries without
AddMemoryThrows(r) ==
    /\ req[r].pc = "store_addMemory"
    /\ Local(r, [pc |-> "store_addMemoryFallback",
                 addMemoryCalls |-> req[r].addMemoryCalls + 1])
    /\ UNCHANGED <<managerVars, runtimeVars, trackerVars>>

\* a mutant of AddMemoryFallbackThrows: the second failure is thrown on
AddMemoryFallbackThrows_Rethrows(r) ==
    /\ req[r].pc = "store_addMemoryFallback"
    /\ ProcessRequestCatch(r, req[r], "addMemory failed")
    /\ UNCHANGED <<managerVars, runtimeVars>>

\* storeInMemory: the fallback addMemory rejected too; logged and swallowed
AddMemoryFallbackThrows(r) ==
    /\ req[r].pc = "store_addMemoryFallback"
    /\ Local(r, [pc |-> "analyze_generateEmbeddings"])
    /\ UNCHANGED <<managerVars, runtimeVars, trackerVars>>

\* analyzeInput: generateEmbeddings settled (ok: it resolved).  Without a memory
\* the error step with output null is returned, and buildContextMessage, reading
\* analysis.intent of null, throws; else queryMemory is awaited
AnalyzeEmbeddingsSettle(r, ok) ==
    /\ req[r].pc = "analyze_generateEmbeddings"
    /\ IF memory = 0
       THEN ProcessRequestCatch(r,
                Merge(req[r], [ queryEmbedding |-> ok,
                                analysis |-> Some([ type |-> "error", confidence |-> 0,
                                                    contextualMemories |-> 0,
                                                    relatedClusters |-> 0 ]) ]),
                NullAnalysisMessage)
       ELSE /\ Local(r, [pc |-> "queryMemory", queryEmbedding |-> ok])
            /\ UNCHANGED trackerVars
    /\ UNCHANGED <<managerVars, runtimeVars>>

\* analyzeInput: queryMemory resolved; getContextualMemories is awaited when the
\* last three turns of the context's history are not empty
QueryMemoryReturns(r) ==
    /\ req[r].pc = "queryMemory"
    /\ IF Slice(ctxView(req[r]), -3) # <<>>
       THEN Local(r, [pc |-> "getContextualMemories"])
       ELSE req' = [req EXCEPT ![r] = AfterContextualMemories(@, ctxView(@), 0)]
    /\ UNCHANGED <<managerVars, runtimeVars, trackerVars>>

\* analyzeInput: queryMemory rejected; nothing catches it before processRequest
QueryMemoryThrows(r) ==
    /\ req[r].pc = "queryMemory"
    /\ ProcessRequestCatch(r, req[r], QueryFailedMessage)
    /\ UNCHANGED <<managerVars, runtimeVars>>

\* analyzeInput: getContextualMemories settled (ok: it resolved, with one memory)
ContextualMemoriesSettle(r, ok) ==
    /\ req[r].pc = "getContextualMemories"
    /\ req' = [req EXCEPT ![r] = AfterContextualMemories(@, ctxView(@), IF ok THEN 1 ELSE 0)]
    /\ UNCHANGED <<managerVars, runtimeVars, trackerVars>>

\* analyzeInput: findRelatedClusters settled (ok: it resolved, with the top 3)
FindRelatedClustersSettle(r, ok) ==
    /\ req[r].pc = "findRelatedClusters"
    /\ req' = [req EXCEPT ![r] =
                 AnalysisDone(@, ctxView(@), @.analysis[1].contextualMemories,
                              IF ok THEN Min(clusters, 3) ELSE 0)]
    /\ UNCHANGED <<managerVars, runtimeVars, trackerVars>>

\* generateResponse: generateText resolved to reply
LLMReturns(r, reply) ==
    /\ req[r].pc = "generateText"
    /\ req' = [req EXCEPT ![r] = AfterReply(@, reply)]
    /\ UNCHANGED <<managerVars, runtimeVars, trackerVars>>

\* a mutant of LLMThrows: the catch appends the apology as an assistant turn
LLMThrows_AppendsApology(r) ==
    /\ req[r].pc = "generateText"
    /\ \E after \in { ManagerAppend(req, [ role |-> "assistant",
                                           content |-> ErrorResponse(LLMFailedMessage).content,
                                           session |-> r ]) } :
           /\ history' = after.history
           /\ appended' = after.appended
           /\ metrics' = updateMetrics(metrics, req[r].startTime, FALSE, after.history)
           /\ calls' = recordCall(calls, FALSE)
           /\ UNCHANGED snapshot
           /\ req' = [after.req EXCEPT ![r] =
                        Settled(Merge(@, [thrown |-> Some(LLMFailedMessage)]),
                                "returned", ErrorResponse(LLMFailedMessage))]
    /\ UNCHANGED <<maxHistory, runtimeVars>>
\* generateResponse: generateText rejected; nothing catches it before processRequest
LLMThrows(r) ==
    /\ req[r].pc = "generateText"
    /\ ProcessRequestCatch(r, req[r], LLMFailedMessage)
    /\ UNCHANGED <<managerVars, runtimeVars>>

\* executeToolCall for the next tool call of the reply: without an executor it
\* throws and the catch pushes the error message; with one the executor is awaited
ExecuteToolCall(r) ==
    /\ req[r].pc = "toolCall"
    /\ LET name == Head(req[r].pending)
       IN  IF hasExecutor(name)
           THEN Local(r, [pc |-> "executor", running |-> Append(req[r].running, name)])
           ELSE req' = [req EXCEPT ![r] =
                          AfterToolCall(@, JSONStringifyError(NoExecutorMessage(name)), TRUE)]
    /\ UNCHANGED <<managerVars, runtimeVars, trackerVars>>

\* the awaited executor resolved to result
ExecutorReturns(r, result) ==
    /\ req[r].pc = "executor"
    /\ result \in ExecutorResults(Head(req[r].pending))
    /\ req' = [req EXCEPT ![r] =
                 AfterToolCall(Merge(@, [running |-> Tail(@.running)]),
                               JSONStringifyResult(result), FALSE)]
    /\ UNCHANGED <<managerVars, runtimeVars, trackerVars>>

\* the awaited executor rejected
ExecutorThrows(r) ==
    /\ req[r].pc = "executor"
    /\ req' = [req EXCEPT ![r] =
                 AfterToolCall(Merge(@, [running |-> Tail(@.running)]),
                               JSONStringifyError(ExecutorTypeError), TRUE)]
    /\ UNCHANGED <<managerVars, runtimeVars, trackerVars>>

\* reasonAndRespond's return value: the content of the response step, the two
\* steps and their overall confidence
reasonAndRespond(rq) ==
    LET steps == <<[ type |-> rq.analysis[1].type,
                     confidence |-> rq.analysis[1].confidence ],
                   [ type |-> rq.responseStep[1].type,
                     confidence |-> rq.responseStep[1].confidence ]>>
    IN  [ kind |-> "text",
          content |-> rq.responseStep[1].response,
          confidence |-> calculateOverallConfidence(steps),
          steps |-> steps,
          capabilitiesUsed |-> Some(<<>>) ]     \* capabilitiesUsed: []

\* a mutant of Finalize: the metrics are updated before the assistant turn is
\* appended
Finalize_MetricsBeforeAppend(r) ==
    /\ req[r].pc = "finalize"
    /\ \E response \in { reasonAndRespond(req[r]) } :
       \E after \in { ManagerAppend(req, [ role |-> "assistant",
                                           content |-> response.content,
                                           session |-> r ]) } :
           /\ history' = after.history
           /\ appended' = after.appended
           /\ metrics' = updateMetrics(metrics, req[r].startTime, TRUE, history)
           /\ calls' = recordCall(calls, TRUE)
           /\ UNCHANGED snapshot
           /\ req' = [after.req EXCEPT ![r] = Settled(@, "returned", response)]
    /\ UNCHANGED <<maxHistory, runtimeVars>>

\* reasonAndRespond returned the response; processRequest appends the assistant
\* turn, updates the metrics with success = true and returns
Finalize(r) ==
    /\ req[r].pc = "finalize"
    /\ \E response \in { reasonAndRespond(req[r]) } :
       \E after \in { ManagerAppend(req, [ role |-> "assistant",
                                           content |-> response.content,
                                           session |-> r ]) } :
           /\ history' = after.history
           /\ appended' = after.appended
           /\ metrics' = updateMetrics(metrics, req[r].startTime, TRUE, after.history)
           /\ calls' = recordCall(calls, TRUE)
           /\ UNCHANGED snapshot
           /\ req' = [after.req EXCEPT ![r] = Settled(@, "returned", response)]
    /\ UNCHANGED <<maxHistory, runtimeVars>>

\* a mutant of Clear: the memory engine is dropped as well
Clear_DropsMemory ==
    /\ history' = <<>>
    /\ appended' = <<>>
    /\ clusters' = 0
    /\ lastClusteringUpdate' = now
    /\ memory' = 0
    /\ req' = [ q \in Tasks |->
                  IF req[q].ctxLive
                  THEN [req[q] EXCEPT !.ctxLive = FALSE, !.ctxSnap = history]
                  ELSE req[q] ]
    /\ UNCHANGED <<maxHistory, memoryInstances, isInitialized, toolExecutors,
                   registryVars, clusteringEnabled, now, trackerVars>>

\* a mutant of Clear: the metrics are reset as well
Clear_ResetsMetrics ==
    /\ history' = <<>>
    /\ appended' = <<>>
    /\ clusters' = 0
    /\ lastClusteringUpdate' = now
    /\ metrics' = initializeMetrics
    /\ req' = [ q \in Tasks |->
                  IF req[q].ctxLive
                  THEN [req[q] EXCEPT !.ctxLive = FALSE, !.ctxSnap = history]
                  ELSE req[q] ]
    /\ UNCHANGED <<maxHistory, memory, memoryInstances, isInitialized, toolExecutors,
                   registryVars, clusteringEnabled, now, calls, snapshot>>

\* AgentRuntime.clear(): conversationManager.clear() assigns a new empty array
Clear ==
    /\ history' = <<>>
    /\ appended' = <<>>
    /\ clusters' = 0
    /\ lastClusteringUpdate' = now
    /\ req' = [ q \in Tasks |->
                  IF req[q].ctxLive
                  THEN [req[q] EXCEPT !.ctxLive = FALSE, !.ctxSnap = history]
                  ELSE req[q] ]
    /\ UNCHANGED <<maxHistory, memory, memoryInstances, isInitialized, toolExecutors,
                   registryVars, clusteringEnabled, now, trackerVars>>

\* initialize() begun by an ensureInitialized() nobody awaits: createMemoryInstance
\* rejected, and the AgentError rejects a promise that has no handler
InitializeRejectsUnobserved(b) ==
    /\ req[b].pc = "createMemoryInstance"
    /\ Local(b, [pc |-> "done", outcome |-> "raised"])
    /\ UNCHANGED <<managerVars, runtimeVars, trackerVars>>

\* this.ensureInitialized() without await: unless the flag is set, initialize()
\* runs up to its first await and goes on in the background
ensureInitializedNotAwaited(tasks, limited) ==
    IF isInitialized THEN tasks
    ELSE [tasks EXCEPT !["I"] =
            Merge(IdleRequest, [pc |-> "createMemoryInstance", rateLimited |-> limited])]

\* one initialize() in the background is followed at a time
canEnsureInitialized == isInitialized \/ req["I"].pc \in {"idle", "done"}

\* updateClusteringIfNeeded asked now is asked while clustering is disabled or
\* less than the interval after lastClusteringUpdate
rateLimitedNow ==
    \/ ~clusteringEnabled
    \/ now - lastClusteringUpdate < updateInterval

\* updateClusteringIfNeeded() is called: it returns if clustering is disabled,
\* calls ensureInitialized() without awaiting it, returns if there is no memory,
\* and awaits createClusters if more than the interval has passed
RefreshStart(r) ==
    /\ req[r].pc \in {"idle", "done"}
    /\ clusteringEnabled => canEnsureInitialized
    /\ LET timeSinceLastUpdate == now - lastClusteringUpdate
           next == IF /\ clusteringEnabled
                      /\ memory # 0
                      /\ timeSinceLastUpdate > updateInterval
                   THEN "updateClusters" ELSE "done"
           started == IF clusteringEnabled
                      THEN ensureInitializedNotAwaited(req, rateLimitedNow)
                      ELSE req
       IN  req' = [started EXCEPT ![r] =
                     Merge(IdleRequest, [pc |-> next, rateLimited |-> rateLimitedNow])]
    /\ UNCHANGED <<managerVars, runtimeVars, trackerVars>>

\* updateClusteringIfNeeded: createClusters resolved
RefreshClustersReturn(r, n) ==
    /\ req[r].pc = "updateClusters"
    /\ clusters' = n
    /\ lastClusteringUpdate' = now
    /\ Local(r, [pc |-> "done", outcome |-> "returned"])
    /\ UNCHANGED <<managerVars, memory, memoryInstances, isInitialized, toolExecutors,
                   registryVars, clusteringEnabled, now, trackerVars>>

\* updateClusteringIfNeeded: createClusters rejected; the catch only logs
RefreshClustersThrow(r) ==
    /\ req[r].pc = "updateClusters"
    /\ Local(r, [pc |-> "done", outcome |-> "returned"])
    /\ UNCHANGED <<managerVars, runtimeVars, trackerVars>>

\* the create_clusters capability is executed: ensureInitialized() is not
\* awaited; without memory it returns success: false, else it awaits createClusters
CreateClustersExecute(k) ==
    /\ "create_clusters" \in DOMAIN capabilities
    /\ req[k].pc \in {"idle", "done"}
    /\ canEnsureInitialized
    /\ req' = [ensureInitializedNotAwaited(req, FALSE) EXCEPT ![k] =
                 Merge(IdleRequest,
                       [pc |-> IF memory # 0 THEN "capabilityCreateClusters" ELSE "done"])]
    /\ UNCHANGED <<managerVars, runtimeVars, trackerVars>>

\* a mutant of CreateClustersReturn: a successful clustering switches clustering on
CreateClustersReturn_ReEnables(k, n) ==
    /\ req[k].pc = "capabilityCreateClusters"
    /\ clusters' = n
    /\ lastClusteringUpdate' = now
    /\ clusteringEnabled' = TRUE
    /\ Local(k, [pc |-> "done", outcome |-> "returned"])
    /\ UNCHANGED <<managerVars, memory, memoryInstances, isInitialized, toolExecutors,
                   registryVars, now, trackerVars>>

\* create_clusters: createClusters resolved; clusters and lastClusteringUpdate are set
CreateClustersReturn(k, n) ==
    /\ req[k].pc = "capabilityCreateClusters"
    /\ clusters' = n
    /\ lastClusteringUpdate' = now
    /\ Local(k, [pc |-> "done", outcome |-> "returned"])
    /\ UNCHANGED <<managerVars, memory, memoryInstances, isInitialized, toolExecutors,
                   registryVars, clusteringEnabled, now, trackerVars>>

\* create_clusters: createClusters rejected, and so does execute
CreateClustersThrow(k) ==
    /\ req[k].pc = "capabilityCreateClusters"
    /\ Local(k, [pc |-> "done", outcome |-> "raised"])
    /\ UNCHANGED <<managerVars, runtimeVars, trackerVars>>

\* a unit of time passes on the clock Date.now() and new Date() read
Tick ==
    /\ now < ConstructionTime + MaxTicks
    /\ now' = now + 1
    /\ UNCHANGED <<managerVars, memory, memoryInstances, isInitialized, toolExecutors,
                   registryVars, clusters, clusteringEnabled, lastClusteringUpdate,
                   trackerVars, req>>

(***************************************************************************)
(* Specifications                                                          *)
(***************************************************************************)
\* the steps of a request whose collaborators may all fail
RequestStep(r) ==
    \/ \E in \in Inputs : StartRequest(r, in)
    \/ CreateMemoryReturns(r)
    \/ CreateMemoryThrows(r)
    \/ \E n \in ClusterCounts : InitClustersReturn(r, n)
    \/ InitClustersThrow(r)
    \/ ProcessInput(r)
    \/ \E t \in Transcriptions : TranscribeReturns(r, t)
    \/ RecordUserTurn(r)
    \/ StoreEmbeddingsReturn(r)
    \/ StoreEmbeddingsThrow(r)
    \/ AddMemoryReturns(r)
    \/ AddMemoryThrows(r)
    \/ AddMemoryFallbackThrows(r)
    \/ \E ok \in BOOLEAN : AnalyzeEmbeddingsSettle(r, ok)
    \/ QueryMemoryReturns(r)
    \/ QueryMemoryThrows(r)
    \/ \E ok \in BOOLEAN : ContextualMemoriesSettle(r, ok)
    \/ \E ok \in BOOLEAN : FindRelatedClustersSettle(r, ok)
    \/ \E reply \in LLMRepliesShort : LLMReturns(r, reply)
    \/ LLMThrows(r)
    \/ ExecuteToolCall(r)
    \/ ExecutorReturns(r, [success |-> TRUE, error |-> "", source |-> "read_file"])
    \/ ExecutorThrows(r)
    \/ Finalize(r)

\* one request on a runtime of any configuration, every collaborator free to fail
NextRequest == RequestStep("A")

SpecRequest == Init /\ [][NextRequest]_vars

\* the steps of a request whose embeddings and memory writes succeed
InterleavedStep(r) ==
    \/ StartRequest(r, [kind |-> "string", value |-> "hi"])
    \/ CreateMemoryReturns(r)
    \/ CreateMemoryThrows(r)
    \/ InitClustersReturn(r, 2)
    \/ InitClustersThrow(r)
    \/ ProcessInput(r)
    \/ RecordUserTurn(r)
    \/ StoreEmbeddingsReturn(r)
    \/ AddMemoryReturns(r)
    \/ AnalyzeEmbeddingsSettle(r, TRUE)
    \/ QueryMemoryReturns(r)
    \/ ContextualMemoriesSettle(r, TRUE)
    \/ FindRelatedClustersSettle(r, TRUE)
    \/ \E reply \in LLMRepliesShort : LLMReturns(r, reply)
    \/ LLMThrows(r)
    \/ ExecuteToolCall(r)
    \/ ExecutorReturns(r, [success |-> TRUE, error |-> "", source |-> "read_file"])
    \/ Finalize(r)

\* one runtime serving interleaved requests
Next ==
    \/ \E r \in Requests : InterleavedStep(r)
    \/ Clear

Spec == Init /\ [][Next]_vars

\* one request on a runtime with the default configuration whose memory engine,
\* embeddings and clustering answer, the LLM replying in every way and the
\* executors resolving or rejecting
InitLoop == Init /\ maxHistory = DefaultMaxConversationHistory

LoopStep(replies) ==
    \/ StartRequest("A", [kind |-> "string", value |-> "hi"])
    \/ CreateMemoryReturns("A")
    \/ InitClustersReturn("A", 2)
    \/ ProcessInput("A")
    \/ RecordUserTurn("A")
    \/ StoreEmbeddingsReturn("A")
    \/ AddMemoryReturns("A")
    \/ AnalyzeEmbeddingsSettle("A", TRUE)
    \/ QueryMemoryReturns("A")
    \/ ContextualMemoriesSettle("A", TRUE)
    \/ FindRelatedClustersSettle("A", TRUE)
    \/ \E reply \in replies : LLMReturns("A", reply)
    \/ LLMThrows("A")
    \/ ExecuteToolCall("A")
    \/ \E name \in ToolExecutorNames : \E result \in ExecutorResults(name) :
          ExecutorReturns("A", result)
    \/ ExecutorThrows("A")
    \/ Finalize("A")

NextLoop == LoopStep(LLMReplies)

SpecLoop == InitLoop /\ [][NextLoop]_vars

\* the same request, the LLM replying with a final answer or with two tool
\* calls, and the event loop running every continuation whose collaborator has
\* answered
NextLoopFair == LoopStep(LLMRepliesFair)

SpecLoopFair == InitLoop /\ [][NextLoopFair]_vars /\ WF_vars(NextLoopFair)

\* the same request while time passes
NextClock ==
    \/ NextLoopFair
    \/ Tick

SpecClock == InitLoop /\ [][NextClock]_vars

\* the caller whose processRequest call has settled makes another call
CallAgain(r) ==
    /\ req[r].pc = "done"
    /\ calls.total < MaxRequests
    /\ req' = [req EXCEPT ![r] = IdleRequest]
    /\ UNCHANGED <<managerVars, runtimeVars, trackerVars>>

\* the steps of a request in whose course nothing fails and which the LLM
\* answers at once
OverlapStep(r, in) ==
    \/ StartRequest(r, in)
    \/ CreateMemoryReturns(r)
    \/ InitClustersReturn(r, 2)
    \/ ProcessInput(r)
    \/ RecordUserTurn(r)
    \/ StoreEmbeddingsReturn(r)
    \/ AddMemoryReturns(r)
    \/ AnalyzeEmbeddingsSettle(r, TRUE)
    \/ QueryMemoryReturns(r)
    \/ ContextualMemoriesSettle(r, TRUE)
    \/ FindRelatedClustersSettle(r, TRUE)
    \/ LLMReturns(r, [reply |-> "the answer", toolCalls |-> <<>>])
    \/ Finalize(r)

\* two callers on one runtime of any configuration: A makes one call, B calls
\* again when its call has settled, and the calls overlap in every way
NextOverlap ==
    \/ OverlapStep("A", [kind |-> "string", value |-> "hi"])
    \/ OverlapStep("B", [kind |-> "text", value |-> "what is up?"])
    \/ CallAgain("B")

SpecOverlap == Init /\ [][NextOverlap]_vars

\* one request on a runtime with the default configuration, every collaborator
\* free to fail, the input possibly null
NextAppends ==
    \/ RequestStep("A")
    \/ StartRequest("A", MalformedInput)
    \/ ProcessInputThrows("A")

SpecAppends == InitLoop /\ [][NextAppends]_vars

\* the AgentError initialize() throws from its catch
InitializeError ==
    [ type |-> "configuration_error", message |-> InitFailedMessage, code |-> "INIT_FAILED" ]

\* initialize() is called and awaited by a caller of its own: it returns at once
\* if the flag is set, else it awaits createMemoryInstance
InitializeStart(b) ==
    /\ req[b].pc \in {"idle", "done"}
    /\ req' = [req EXCEPT ![b] =
                 IF isInitialized
                 THEN Merge(IdleRequest, [pc |-> "done", outcome |-> "returned"])
                 ELSE Merge(IdleRequest, [pc |-> "createMemoryInstance"])]
    /\ UNCHANGED <<managerVars, runtimeVars, trackerVars>>

\* a mutant of InitializeThrows: the failure leaves the flag set
InitializeThrows_MarksInitialized(b) ==
    /\ req[b].pc = "createMemoryInstance"
    /\ isInitialized' = TRUE
    /\ Local(b, [pc |-> "done", outcome |-> "raised", thrown |-> Some(InitializeError)])
    /\ UNCHANGED <<managerVars, memory, memoryInstances, toolExecutors, registryVars,
                   clusters, clusteringEnabled, lastClusteringUpdate, now, trackerVars>>

\* initialize(): createMemoryInstance rejected; the catch throws the AgentError
\* to the caller and nothing of the runtime has been assigned
InitializeThrows(b) ==
    /\ req[b].pc = "createMemoryInstance"
    /\ Local(b, [pc |-> "done", outcome |-> "raised", thrown |-> Some(InitializeError)])
    /\ UNCHANGED <<managerVars, runtimeVars, trackerVars>>

\* two callers of processRequest, each calling again when its call has settled,
\* and a caller of initialize(), on a runtime with the default configuration
\* whose memory engine and clustering routine may fail
NextInitialize ==
    \/ OverlapStep("A", [kind |-> "string", value |-> "hi"])
    \/ OverlapStep("B", [kind |-> "text", value |-> "what is up?"])
    \/ \E r \in Requests : CreateMemoryThrows(r) \/ InitClustersThrow(r) \/ CallAgain(r)
    \/ InitializeStart("I")
    \/ CreateMemoryReturns("I")
    \/ InitializeThrows("I")
    \/ InitClustersReturn("I", 2)
    \/ InitClustersThrow("I")

SpecInitialize == InitLoop /\ [][NextInitialize]_vars

\* one request answered at once by the LLM, refreshes of the clustering, executions
\* of create_clusters, clear() and the clock, on a runtime whose memory engine and
\* clustering routine may fail
NextClustering ==
    \/ StartRequest("A", [kind |-> "string", value |-> "hi"])
    \/ CreateMemoryReturns("A")
    \/ CreateMemoryThrows("A")
    \/ InitClustersReturn("A", 2)
    \/ InitClustersThrow("A")
    \/ ProcessInput("A")
    \/ RecordUserTurn("A")
    \/ StoreEmbeddingsReturn("A")
    \/ AddMemoryReturns("A")
    \/ AnalyzeEmbeddingsSettle("A", TRUE)
    \/ QueryMemoryReturns("A")
    \/ ContextualMemoriesSettle("A", TRUE)
    \/ FindRelatedClustersSettle("A", TRUE)
    \/ LLMReturns("A", [reply |-> "the answer", toolCalls |-> <<>>])
    \/ Finalize("A")
    \/ CreateMemoryReturns("I")
    \/ InitializeRejectsUnobserved("I")
    \/ InitClustersReturn("I", 2)
    \/ InitClustersThrow("I")
    \/ RefreshStart("R")
    \/ RefreshClustersReturn("R", 2)
    \/ RefreshClustersThrow("R")
    \/ CreateClustersExecute("K")
    \/ CreateClustersReturn("K", 2)
    \/ CreateClustersThrow("K")
    \/ Clear
    \/ Tick

SpecClustering == InitLoop /\ [][NextClustering]_vars

(***************************************************************************)
(* processRequest: the catch-all                                           *)
(***************************************************************************)
\* the number of successful requests the tracker's average stands for, as a
\* fraction: successRate * totalRequests
successes(m) == Rat(m.successRate[1] * m.totalRequests, m.successRate[2])

\* C1: processRequest never raises. Whatever the input and whichever collaborator
\* fails, a call that has settled has returned an AgentResponse; when an exception
\* reached the top-level catch the response is the apology naming the error, with
\* confidence 0, and the step that caught it counted one more request in the
\* metrics without counting one more success.
C1_ProcessRequestNeverRaises ==
    /\ [](\A r \in Requests :
            /\ req[r].outcome # "raised"
            /\ req[r].pc = "done" =>
                   /\ req[r].outcome = "returned"
                   /\ req[r].response.kind = "text"
            /\ req[r].thrown # Null =>
                   /\ req[r].pc = "done"
                   /\ req[r].response.content = ApologyPrefix \o req[r].thrown[1]
                   /\ req[r].response.confidence = <<0, 1>>)
    /\ [][\A r \in Requests :
            (req[r].thrown = Null /\ req'[r].thrown # Null) =>
                /\ metrics'.totalRequests = metrics.totalRequests + 1
                /\ successes(metrics') = successes(metrics)]_vars

\* C1, its case: the LLM call of a request failed, the request returned the
\* apology for it and the only request counted is a failure
C1_Witness ==
    \E r \in Requests :
        /\ req[r].thrown = Some(LLMFailedMessage)
        /\ req[r].outcome = "returned"
        /\ req[r].response.content = ApologyPrefix \o LLMFailedMessage
        /\ req[r].response.confidence = <<0, 1>>
        /\ metrics.totalRequests = 1
        /\ metrics.successRate = <<0, 1>>

(***************************************************************************)
(* ConversationManager: the history cap                                    *)
(***************************************************************************)
\* the last n elements of s
LastN(s, n) == SubSeq(s, Len(s) - n + 1, Len(s))

\* C2: after every append the history holds at most maxHistory messages, for
\* every maxHistory the manager can be constructed with
C2_HistoryWithinCap == Len(history) <= maxHistory

\* C3: the history is the last min(N, maxHistory) of the N messages appended since
\* construction or the last clear, in the order they were appended
C3_HistoryIsLastAppended ==
    history = LastN(appended, Min(Len(appended), maxHistory))

(***************************************************************************)
(* generateResponse: the bound on LLM round-trips                          *)
(***************************************************************************)
\* C4: a request makes at most 5 generateText calls, whatever the LLM replies
C4_AtMostFiveRoundTrips ==
    \A r \in Requests : req[r].llmCalls <= 5 /\ Len(req[r].replies) <= req[r].llmCalls

\* C4, its case: a request made its fifth generateText call and left the loop
C4_Witness ==
    \E r \in Requests :
        /\ req[r].pc = "finalize"
        /\ req[r].llmCalls = 5
        /\ Len(req[r].replies) = 5

(***************************************************************************)
(* generateResponse: what the message sequence must look like              *)
(***************************************************************************)
\* the messages pushed by the loop, after those buildConversationMessages built
loopMessages(rq) == SubSeq(rq.messages, rq.baseLen + 1, Len(rq.messages))

RECURSIVE expectedSlots(_, _)
\* what the replies received so far call for: per reply one assistant slot, then
\* one tool slot per tool call of the reply that is no longer pending
expectedSlots(replies, pending) ==
    IF replies = <<>> THEN <<>>
    ELSE LET reply == Head(replies)
             n == IF Len(replies) = 1 THEN Len(reply.toolCalls) - Len(pending)
                  ELSE Len(reply.toolCalls)
         IN  <<[role |-> "assistant", text |-> reply.reply, name |-> ""]>>
               \o [j \in 1..n |-> [role |-> "tool", text |-> "", name |-> reply.toolCalls[j]]]
               \o expectedSlots(Tail(replies), pending)

\* the tool-role contents that carry an error field because the call failed
ToolErrorContents ==
    { JSONStringifyError(NoExecutorMessage(name)) : name \in RequestedToolNames }
        \cup { JSONStringifyError(ExecutorTypeError) }

\* the tool-role contents a call naming name can end in
ToolContentsOf(name) ==
    { JSONStringifyError(NoExecutorMessage(name)), JSONStringifyError(ExecutorTypeError) }
        \cup { JSONStringifyResult(result) : result \in ExecutorResults(name) }

RECURSIVE requestedToolCalls(_)
\* the number of tool calls the replies asked for
requestedToolCalls(replies) ==
    IF replies = <<>> THEN 0
    ELSE Len(Head(replies).toolCalls) + requestedToolCalls(Tail(replies))

\* the number of tool-role messages the loop has pushed
toolMessages(rq) == Cardinality({ k \in 1..Len(loopMessages(rq)) : loopMessages(rq)[k].role = "tool" })

\* the request went through the loop and came back with the reflection step
returnedStep(rq) ==
    /\ rq.thrown = Null
    /\ rq.response.steps # <<>>
    /\ rq.response.steps[Len(rq.response.steps)].type = "reflection"

(***************************************************************************)
(* generateResponse: termination                                           *)
(***************************************************************************)
\* C5 as the spec has it: every request that entered the loop and has settled
\* came out of generateResponse with a ReasoningStep
C5_LoopAlwaysReturnsStep ==
    \A r \in Requests :
        (req[r].pc = "done" /\ req[r].llmCalls >= 1) => returnedStep(req[r])

\* C5: when every generateText call and every executor answers (resolves or
\* rejects), a request waiting for the LLM eventually leaves the loop, after at
\* most 5 generateText calls and no more tool executions than the replies asked
\* for; it leaves with the reflection step unless a generateText call rejected,
\* in which case the error goes to processRequest's catch
C5_LoopTerminates ==
    /\ \A r \in Requests :
          (req[r].pc = "generateText") ~> (req[r].pc \in {"finalize", "done"})
    /\ [](\A r \in Requests :
            /\ req[r].llmCalls <= 5
            /\ toolMessages(req[r]) <= requestedToolCalls(req[r].replies)
            /\ req[r].pc = "finalize" =>
                   /\ req[r].responseStep # Null
                   /\ req[r].thrown = Null
                   /\ toolMessages(req[r]) = requestedToolCalls(req[r].replies)
            /\ (req[r].pc = "done" /\ req[r].llmCalls >= 1 /\ ~returnedStep(req[r])) =>
                   req[r].thrown = Some(LLMFailedMessage))

\* C5, its case: a request left the loop with the reflection step after three
\* generateText calls and the four tool calls the first two replies asked for
C5_Witness ==
    \E r \in Requests :
        /\ req[r].pc = "finalize"
        /\ req[r].llmCalls = 3
        /\ toolMessages(req[r]) = 4
        /\ req[r].responseStep # Null

(***************************************************************************)
(* generateResponse: the fallback and the final reply                      *)
(***************************************************************************)
\* every reply of the sequence asks for at least one tool call
allWithToolCalls(replies) == \A i \in 1..Len(replies) : replies[i].toolCalls # <<>>

\* C6: when every reply generateText resolved to asked for a tool call, the loop
\* is left after exactly 5 round-trips with the fallback string as the final
\* response; nothing but a rejected generateText call makes the loop raise
C6_ToolCallsOnlyGivesFallback ==
    \A r \in Requests :
        /\ (req[r].pc = "finalize" /\ allWithToolCalls(req[r].replies)) =>
               /\ req[r].llmCalls = 5
               /\ Len(req[r].replies) = 5
               /\ req[r].responseStep[1].response = FallbackResponse
        /\ (req[r].pc \in {"toolCall", "executor"}) => req[r].thrown = Null
        /\ (req[r].pc = "done" /\ req[r].llmCalls >= 1 /\ req[r].thrown # Null) =>
               req[r].thrown = Some(LLMFailedMessage)

\* C6, its case: five replies with tool calls, then the fallback
C6_Witness ==
    \E r \in Requests :
        /\ req[r].pc = "finalize"
        /\ Len(req[r].replies) = 5
        /\ allWithToolCalls(req[r].replies)
        /\ req[r].responseStep[1].response = FallbackResponse

\* C7: a reply without tool calls ends the loop with exactly its content as the
\* final response, whatever the content; the fallback string is the final
\* response only after 5 round-trips
C7_FinalResponseIsReplyContent ==
    \A r \in Requests :
        req[r].pc = "finalize" =>
            LET last == req[r].replies[Len(req[r].replies)]
                final == req[r].responseStep[1].response
            IN  /\ last.toolCalls = <<>> => final = last.reply
                /\ final = FallbackResponse => req[r].llmCalls = 5

(***************************************************************************)
(* generateResponse: tool calls                                            *)
(***************************************************************************)
\* the step of request r in which a tool call fails: executeToolCall finds no
\* executor, or the awaited executor rejects
ToolCallFails(r) ==
    \/ /\ req[r].pc = "toolCall"
       /\ ~hasExecutor(Head(req[r].pending))
       /\ req'[r] # req[r]
    \/ ExecutorThrows(r)

\* C8: a tool call that fails, for want of an executor or because the executor
\* throws, appends exactly one tool-role message with an error field and raises
\* nothing; the calls of the reply that follow it stay to be executed, and after
\* the last call of the reply the loop goes on to the next generateText call
\* (or, after the fifth round-trip, leaves with a response step)
C8_ToolFailureDoesNotAbort ==
    [][\A r \in Requests :
         ToolCallFails(r) =>
             LET before == req[r]
                 after == req'[r]
             IN  /\ Len(after.messages) = Len(before.messages) + 1
                 /\ SubSeq(after.messages, 1, Len(before.messages)) = before.messages
                 /\ after.messages[Len(after.messages)].role = "tool"
                 /\ after.messages[Len(after.messages)].content \in ToolErrorContents
                 /\ after.thrown = Null
                 /\ after.outcome = "pending"
                 /\ IF Len(before.pending) > 1
                    THEN /\ after.pc = "toolCall"
                         /\ after.pending = Tail(before.pending)
                    ELSE IF before.iterations < 5
                    THEN /\ after.pc = "generateText"
                         /\ after.llmCalls = before.llmCalls + 1
                    ELSE /\ after.pc = "finalize"
                         /\ after.responseStep # Null]_vars

\* C8, its case: the first call of a reply had no executor, the second was
\* executed all the same, and the loop is at its next generateText call
C8_Witness ==
    \E r \in Requests :
        /\ req[r].pc = "generateText"
        /\ req[r].llmCalls = 2
        /\ Len(loopMessages(req[r])) = 3
        /\ loopMessages(req[r])[2].content = JSONStringifyError(NoExecutorMessage("query_memory"))
        /\ loopMessages(req[r])[3].content =
               JSONStringifyResult([success |-> TRUE, error |-> "", source |-> "read_file"])

capabilitySlots(rq) ==
    { k \in 1..Len(loopMessages(rq)) :
        LET slot == expectedSlots(rq.replies, rq.pending)[k]
        IN  slot.role = "tool" /\ slot.name \in DOMAIN capabilities }

completedRequests == { r \in Requests : req[r].pc = "done" }

\* C11: totalRequests is the number of processRequest calls completed so far,
\* failed or not and however they interleave; no step makes it smaller, and
\* clear() leaves it as it is
C11_TotalRequestsCountsCompleted ==
    /\ [](metrics.totalRequests = Cardinality(completedRequests))
    /\ [][metrics'.totalRequests >= metrics.totalRequests]_vars
    /\ [][Clear => metrics' = metrics]_vars

\* C11, its case: one request failed, one succeeded, and clear() was called
\* after both had been counted
C11_Witness ==
    /\ completedRequests = Requests
    /\ \E r \in Requests : req[r].thrown # Null
    /\ \E r \in Requests : req[r].thrown = Null
    /\ metrics.totalRequests = 2
    /\ metrics.memoryUsage.conversationHistory > 0
    /\ history = <<>>

(***************************************************************************)
(* MetricsTracker: the averages and the snapshot                           *)
(***************************************************************************)
\* equality of two fractions
RatEq(a, b) == a[1] * b[2] = b[1] * a[2]

C13_AverageIsMovingAverage ==
    [][\A x \in ProcessingTimes : \A success \in BOOLEAN : \A n \in ConversationLengths :
          MTUpdateMetrics(x, success, n) =>
              LET old == metrics.averageProcessingTime
                  new == metrics'.averageProcessingTime
              IN  /\ new[2] # 0
                  /\ RatEq(new, <<x * old[2] + 9 * old[1], 10 * old[2]>>)
                  /\ calls.total = 0 => RatEq(new, <<x, 10>>)]_vars

\* C13, its case: updateMetrics(200, ...) then updateMetrics(100, ...) on a
\* fresh tracker: 0.1 * 100 + 0.9 * (0.1 * 200) = 28
C13_Witness ==
    /\ calls.total = 2
    /\ metrics.averageProcessingTime = <<28, 1>>

\* C14: whatever a caller writes into the value getMetrics() returned, into its
\* own fields or into its nested records and maps, the tracker's metrics, which
\* a later getMetrics() returns, stay as they were
C14_SnapshotIsACopy ==
    [][(WriteReturnedField \/ \E field \in NestedFields : WriteReturnedNested(field))
          => metrics' = metrics]_vars

\* C15: on the success path and on the failure path alike, the updateMetrics
\* call of processRequest carries the time the request took (the clock at that
\* call minus the clock at its start) and the flag of the path taken
C15_ElapsedTimeIsRecorded ==
    [][calls'.total = calls.total + 1 =>
          LET elapsed == now - req["A"].startTime
              success == req'["A"].thrown = Null
          IN  /\ metrics' = updateMetrics(metrics, elapsed, success, history')
              /\ calls' = recordCall(calls, success)]_vars

(***************************************************************************)
(* Clustering                                                              *)
(***************************************************************************)
\* C16: once clusteringEnabled is false it stays false, whatever happens next:
\* steps of requests, refreshes, executions of create_clusters, clear()
C16_ClusteringEnabledIsALatch ==
    [][clusteringEnabled = FALSE => clusteringEnabled' = FALSE]_vars

\* C16, its case: the bootstrap of the one initialization failed, and since then
\* the request was answered, clear() was called, create_clusters was executed
\* and stored its clusters, and a refresh returned: clustering is still off
C16_Witness ==
    /\ clusteringEnabled = FALSE
    /\ memoryInstances = 1
    /\ req["A"].pc = "done" /\ req["A"].thrown = Null
    /\ history = <<>>
    /\ req["K"].pc = "done" /\ req["K"].outcome = "returned"
    /\ clusters = 2
    /\ req["R"].pc = "done" /\ req["R"].rateLimited
    /\ now > lastClusteringUpdate + updateInterval

\* C17: when the createClusters call of updateClusteringIfNeeded fails,
\* clusteringEnabled becomes false
C17_FailedRefreshDisablesClustering ==
    [][RefreshClustersThrow("R") => clusteringEnabled' = FALSE]_vars

\* a call of the clustering routine is awaited by the refresh or by the
\* initialization it began
awaitingClusters(rq) == rq.pc \in {"createClusters", "updateClusters"}

\* C18: a refresh asked while clustering is disabled, or less than the interval
\* after lastClusteringUpdate, leads to no call of the clustering routine and
\* leaves clusters and lastClusteringUpdate as they are, in the call itself and
\* in what the call set going
C18_RateLimitedRefreshDoesNothing ==
    [][( \/ rateLimitedNow /\ RefreshStart("R")
         \/ /\ req["I"].rateLimited
            /\ \/ CreateMemoryReturns("I")
               \/ InitClustersReturn("I", 2)
               \/ InitClustersThrow("I") )
        => /\ clusters' = clusters
           /\ lastClusteringUpdate' = lastClusteringUpdate
           /\ \A t \in {"R", "I"} : awaitingClusters(req'[t]) => awaitingClusters(req[t])]_vars

(***************************************************************************)
(* storeInMemory and analyzeInput                                          *)
(***************************************************************************)
\* the request is inside storeInMemory
inStoreInMemory(rq) ==
    rq.pc \in {"store_generateEmbeddings", "store_addMemory", "store_addMemoryFallback"}

\* C19: storeInMemory calls addMemory at most twice per request, and whatever
\* fails in it, the request goes on to analyzeInput with nothing thrown
C19_MemoryWriteIsBestEffort ==
    /\ [](\A r \in Requests : req[r].addMemoryCalls <= 2)
    /\ [][\A r \in Requests :
             inStoreInMemory(req[r]) /\ req'[r] # req[r] =>
                 /\ inStoreInMemory(req'[r]) \/ req'[r].pc = "analyze_generateEmbeddings"
                 /\ req'[r].thrown = Null
                 /\ req'[r].outcome = "pending"]_vars

\* C19, its case: generateEmbeddings failed and the one addMemory call made, the
\* one without embeddings, failed too: nothing was stored, and the request was
\* answered with success = true
C19_Witness ==
    /\ req["A"].pc = "done"
    /\ req["A"].addMemoryCalls = 1
    /\ ~req["A"].stored
    /\ req["A"].thrown = Null
    /\ req["A"].outcome = "returned"
    /\ req["A"].response.content = "the answer"
    /\ metrics.successRate = <<1, 1>>

\* the request awaits one of the enrichment calls of analyzeInput
inAnalyzeInput(rq) ==
    rq.pc \in {"analyze_generateEmbeddings", "queryMemory", "getContextualMemories",
               "findRelatedClusters"}

\* C20: with a memory engine present, whichever enrichment call of analyzeInput
\* fails (generateEmbeddings, queryMemory, getContextualMemories,
\* findRelatedClusters), nothing is thrown to processRequest: the request stays
\* on its way to the analysis step and the tool-call loop
C20_EnrichmentFailuresAreAbsorbed ==
    [][\A r \in Requests :
          inAnalyzeInput(req[r]) /\ memory # 0 /\ req'[r] # req[r] =>
              /\ req'[r].thrown = Null
              /\ req'[r].outcome = "pending"
              /\ req'[r].pc # "done"]_vars

(***************************************************************************)
(* The capability registry                                                 *)
(***************************************************************************)
\* the ids registerCoreCapabilities has set so far
registeredIds == { registrations.done[i].id : i \in DOMAIN registrations.done }

\* the last capability set under an id
lastRegistered(id) ==
    LET last == CHOOSE i \in DOMAIN registrations.done :
                    /\ registrations.done[i].id = id
                    /\ \A j \in DOMAIN registrations.done :
                          registrations.done[j].id = id => j <= i
    IN  registrations.done[last]

\* C21: the registry holds one capability per id that was registered, the one
\* registered last under that id, and the names of TOOL_REGISTRY are pairwise
\* distinct
C21_CapabilityIdsAreUnique ==
    /\ DOMAIN capabilities = registeredIds
    /\ \A id \in registeredIds : capabilities[id] = lastRegistered(id).kind
    /\ \A i, j \in DOMAIN TOOL_REGISTRY : TOOL_REGISTRY[i] = TOOL_REGISTRY[j] => i = j

\* C21, its case: the catalog had a tool named query_memory, twice, and
\* registerCoreCapabilities then set its own query_memory: three registrations
\* under the id, one entry, the memory capability
C21_Witness ==
    /\ registrations.todo = <<>>
    /\ Cardinality({ i \in DOMAIN registrations.done :
                        registrations.done[i].id = "query_memory" }) = 3
    /\ capabilities["query_memory"] = "memory"
    /\ Cardinality(DOMAIN capabilities) = 8

\* C22: the execute of a registered capability never rejects: whatever fails
\* underneath, the caller gets a CapabilityResult
C22_ExecuteNeverRaises ==
    req["K"].outcome # "raised"

(***************************************************************************)
(* Confidence                                                              *)
(***************************************************************************)
\* a fraction between 0 and 1
inUnitInterval(q) == q[2] > 0 /\ 0 <= q[1] /\ q[1] <= q[2]

\* C23: every confidence lies in [0, 1]: that of the analysis step and of the
\* response step while the request runs, those of the steps of the response
\* returned and its overall confidence, and those of capability results
C23_ConfidenceWithinUnitInterval ==
    /\ \A r \in Requests :
          /\ req[r].analysis # Null => req[r].analysis[1].confidence \in 0..100
          /\ req[r].responseStep # Null => req[r].responseStep[1].confidence \in 0..100
          /\ \A i \in DOMAIN req[r].response.steps :
                req[r].response.steps[i].confidence \in 0..100
          /\ inUnitInterval(req[r].response.confidence)
    /\ \A id \in DOMAIN capabilities : capabilityResultConfidences(id) \subseteq 0..100

\* C23, its case: a request answered through both steps, analysis 0.8 with
\* weight 0.3 and response 0.95 with weight 0.1: overall 0.8375
C23_Witness ==
    /\ req["A"].pc = "done"
    /\ Len(req["A"].response.steps) = 2
    /\ req["A"].response.confidence = <<67, 80>>

(***************************************************************************)
(* The user turn                                                           *)
(***************************************************************************)
\* the request has not yet reached addToConversationHistory('user', ...)
beforeUserTurn(rq) ==
    rq.pc \in {"idle", "createMemoryInstance", "createClusters", "processInput",
               "transcribeFromAudio", "recordTurn"}

\* the user turn of a request
userTurn(r) == [role |-> "user", content |-> req[r].content, session |-> r]

\* C24: when the transcription of an audio input fails nothing is thrown: the
\* content is the error marker, and once the request is past the recording of
\* its user turn the marker has been appended to the conversation as that turn
C24_FailedTranscriptionYieldsMarker ==
    /\ [][\A r \in Requests :
             req[r].pc = "transcribeFromAudio" /\ req'[r] # req[r] =>
                 /\ req'[r].pc = "recordTurn"
                 /\ req'[r].thrown = Null
                 /\ req'[r].content # ""]_vars
    /\ [](\A r \in Requests :
             req[r].content = TranscriptionErrorMarker /\ ~beforeUserTurn(req[r]) =>
                 \E i \in DOMAIN appended : appended[i] = userTurn(r))

\* C24, its case: an audio input whose transcription failed, the marker recorded
\* as the user turn and stored, and the request answered by the LLM
C24_Witness ==
    /\ req["A"].pc = "done"
    /\ req["A"].input.kind = "audio"
    /\ req["A"].content = TranscriptionErrorMarker
    /\ \E i \in DOMAIN appended : appended[i] = userTurn("A")
    /\ req["A"].stored
    /\ req["A"].llmCalls >= 1
    /\ req["A"].thrown = Null
    /\ req["A"].response.content = "the answer"

\* the request is between the recording of its user turn and its return
hasRecordedUserTurn(r) == ~beforeUserTurn(req[r]) /\ req[r].pc # "done"

\* the messages that follow the request's user turn in the array its context
\* refers to
turnsAfterUserTurn(r) ==
    LET h == ctxView(req[r])
        at == CHOOSE i \in DOMAIN h :
                  /\ h[i] = userTurn(r)
                  /\ \A j \in DOMAIN h : h[j] = userTurn(r) => j <= i
    IN  SubSeq(h, at + 1, Len(h))

\* the request's user turn as buildConversationMessages passes it on
userMessage(r) == [role |-> "user", content |-> req[r].content]

\* the step in which the request builds the messages of its first round-trip
BuildsFirstMessages(r) ==
    /\ req[r].llmCalls = 0
    /\ req[r].pc # "generateText"
    /\ req'[r].pc = "generateText"

\* C25 as stated: for every request, the last three turns analysis reads from
\* the context's history and the messages of the first round-trip contain the
\* request's user turn
C25_WindowsContainUserTurn ==
    /\ [](\A r \in Requests :
             req[r].pc = "queryMemory" =>
                 \E i \in DOMAIN Slice(ctxView(req[r]), -3) :
                     Slice(ctxView(req[r]), -3)[i] = userTurn(r))
    /\ [][\A r \in Requests :
             BuildsFirstMessages(r) =>
                 \E i \in DOMAIN req'[r].messages : req'[r].messages[i] = userMessage(r)]_vars

\* C25, amended: from the recording of its user turn to its return, the array
\* the request's context refers to contains that turn, followed only by turns of
\* other requests; the last three turns analysis reads contain it when fewer
\* than three turns follow it, and the messages of the first round-trip when
\* fewer than ten do
C25_UserTurnRecordedFirst ==
    /\ [](\A r \in Requests :
             hasRecordedUserTurn(r) =>
                 /\ \E i \in DOMAIN ctxView(req[r]) : ctxView(req[r])[i] = userTurn(r)
                 /\ \A i \in DOMAIN turnsAfterUserTurn(r) :
                       turnsAfterUserTurn(r)[i].session # r
                 /\ req[r].pc = "queryMemory" /\ Len(turnsAfterUserTurn(r)) < 3 =>
                       \E i \in DOMAIN Slice(ctxView(req[r]), -3) :
                           Slice(ctxView(req[r]), -3)[i] = userTurn(r))
    /\ [][\A r \in Requests :
             BuildsFirstMessages(r) /\ Len(turnsAfterUserTurn(r)) < RecentHistoryWindow =>
                 \E i \in DOMAIN req'[r].messages : req'[r].messages[i] = userMessage(r)]_vars

\* C25, its case: A is about to read its analysis window while B has recorded
\* a turn and been answered since A recorded its own: two turns follow A's
C25_Witness ==
    /\ req["A"].pc = "queryMemory"
    /\ req["A"].ctxLive
    /\ Len(turnsAfterUserTurn("A")) = 2
    /\ Slice(ctxView(req["A"]), -3)[1] = userTurn("A")

\* the requests that hold an AgentContext
withContext == { r \in Requests : req[r].hasContext /\ req[r].pc # "done" }

\* C26: the conversationHistory of a request's context is a live view of the
\* manager's log: whatever the cap and however many messages were appended
\* since, it shows what the manager's history shows
C26_ContextHistoryIsLiveView ==
    \A r \in withContext : ctxView(req[r]) = history

\* C26, the failing case: a request holds a context whose array addMessage has
\* replaced, and the manager's history has moved on without it
C26_StaleContext ==
    \E r \in withContext :
        /\ ~req[r].ctxLive
        /\ \E i \in DOMAIN history : \A j \in DOMAIN req[r].ctxSnap :
              req[r].ctxSnap[j] # history[i]

\* the number of turns of the given role that request r appended among the
\* first n appended messages
turnsOf(r, role, n) ==
    Cardinality({ i \in 1..n : appended[i].session = r /\ appended[i].role = role })

\* who appended what, in the order of the manager's history
historyOrder == [ i \in DOMAIN history |-> <<history[i].role, history[i].session>> ]

\* C27: whatever the interleaving of the requests' appends, every assistant
\* turn of a request is preceded by the user turn of the same call: before
\* each assistant turn the request has appended more user turns than
\* assistant turns
C27_UserTurnPrecedesAssistantTurn ==
    \A i \in DOMAIN appended :
        appended[i].role = "assistant" =>
            turnsOf(appended[i].session, "user", i - 1) >
                turnsOf(appended[i].session, "assistant", i - 1)

\* C27, its case: A started first, B's whole exchange was appended between A's
\* user turn and A's assistant turn
C27_Witness ==
    historyOrder = << <<"user", "A">>, <<"user", "B">>,
                      <<"assistant", "B">>, <<"assistant", "A">> >>

\* the call is inside initialize(), at one of its awaits
initializing(rq) == rq.pc \in {"createMemoryInstance", "createClusters"}

\* an initialize() has completed successfully: populating the executors is its
\* last statement
initializeCompleted == isInitialized /\ toolExecutors = ToolExecutorNames

\* C28: once an initialize() has completed successfully, no call of
\* initialize() or processRequest made afterwards enters the setup, and when no
\* earlier call is still inside it the memory engine, the clusters of the
\* bootstrap and the executor map are assigned no more
C28_InitializeIsIdempotent ==
    /\ [][\A r \in Tasks :
             initializeCompleted /\ ~initializing(req[r]) => ~initializing(req'[r])]_vars
    /\ [][initializeCompleted /\ (\A r \in Tasks : ~initializing(req[r])) =>
             /\ memoryInstances' = memoryInstances
             /\ memory' = memory
             /\ toolExecutors' = toolExecutors
             /\ clusters' = clusters
             /\ isInitialized']_vars

\* C28, its case: two calls have settled, B's second call has passed the gate
\* without setup, and the only memory engine ever created is in place
C28_Witness ==
    /\ initializeCompleted
    /\ calls.successful = 2
    /\ req["B"].pc = "processInput"
    /\ req["A"].pc = "done"
    /\ req["I"].outcome = "returned"
    /\ memoryInstances = 1

\* the step in which the createMemoryInstance a call awaits resolves
createMemoryResolves(r) ==
    /\ req[r].pc = "createMemoryInstance"
    /\ req'[r].pc \in {"createClusters", afterInitialize(r)}
    /\ req'[r].thrown = Null

\* C29: a call that passed the flag check installs a new memory engine when its
\* createMemoryInstance resolves, whether or not another call has initialized
\* the runtime meanwhile, so the engine in place is always the one created last
C29_LaterInstanceReplacesEarlier ==
    /\ [](memory = memoryInstances)
    /\ [][\A r \in Tasks :
             createMemoryResolves(r) =>
                 /\ memoryInstances' = memoryInstances + 1
                 /\ memory' = memoryInstances + 1]_vars

\* C29, its case: A and B both started before any initialization completed,
\* neither has settled, and the second engine created has replaced the first
C29_Witness ==
    /\ calls.total = 0
    /\ req["I"].pc = "idle"
    /\ \A r \in Requests : req[r].pc \notin {"idle", "done", "createMemoryInstance"}
    /\ memoryInstances = 2
    /\ memory = 2

\* the step in which the createMemoryInstance a call awaits rejects
createMemoryRejects(r) ==
    /\ req[r].pc = "createMemoryInstance"
    /\ req'[r].pc = "done"
    /\ req'[r].thrown # Null

\* C30: a failed createMemoryInstance assigns nothing: as long as no engine was
\* created the runtime is uninitialized, without memory and without executors;
\* the caller of initialize() gets the configuration_error AgentError, the
\* caller of processRequest the apology with its message; and a call made while
\* the flag is unset attempts the setup again
C30_FailedInitializeLeavesUninitialized ==
    /\ [](memoryInstances = 0 => ~isInitialized /\ memory = 0 /\ toolExecutors = {})
    /\ [][\A r \in Tasks \ Requests :
             createMemoryRejects(r) =>
                 /\ req'[r].outcome = "raised"
                 /\ req'[r].thrown = Some(InitializeError)
                 /\ UNCHANGED <<memory, isInitialized, toolExecutors>>]_vars
    /\ [][\A r \in Requests :
             createMemoryRejects(r) =>
                 /\ req'[r].outcome = "returned"
                 /\ req'[r].response = ErrorResponse(InitializeError.message)
                 /\ UNCHANGED <<memory, isInitialized, toolExecutors>>]_vars
    /\ [][\A r \in Tasks :
             /\ ~isInitialized
             /\ req[r].pc \in {"idle", "done"}
             /\ req'[r].pc \notin {"idle", "done"}
             => req'[r].pc = "createMemoryInstance"]_vars

\* C30, its case: initialize() has been rejected, a processRequest call has
\* returned the apology, and B, calling again, attempts the setup anew
C30_Witness ==
    /\ req["I"].outcome = "raised"
    /\ req["A"].response = ErrorResponse(InitFailedMessage)
    /\ req["B"].pc = "createMemoryInstance"
    /\ calls = [total |-> 2, successful |-> 0]
    /\ ~isInitialized
    /\ memory = 0

\* the step of processRequest a call is at: 0 not started, 1 initialization
\* gate, 2 input normalization, 3 context assembly and user-turn append,
\* 4 memory write, 5 analysis, 6 the tool-call loop, 7 assistant-turn append and
\* metrics update, 8 settled
stepOf(pc) ==
    CASE pc = "idle" -> 0
      [] pc \in {"createMemoryInstance", "createClusters"} -> 1
      [] pc \in {"processInput", "transcribeFromAudio"} -> 2
      [] pc = "recordTurn" -> 3
      [] pc \in {"store_generateEmbeddings", "store_addMemory", "store_addMemoryFallback"} -> 4
      [] pc \in {"analyze_generateEmbeddings", "queryMemory", "getContextualMemories",
                 "findRelatedClusters"} -> 5
      [] pc \in {"generateText", "toolCall", "executor"} -> 6
      [] pc = "finalize" -> 7
      [] OTHER -> 8

\* the message appended in this step, if one was
appendedNow(role, r) ==
    /\ Len(appended') = Len(appended) + 1
    /\ appended'[Len(appended')].role = role
    /\ appended'[Len(appended')].session = r

\* C31: within one call the steps are taken in the documented order, none
\* before the one before it is over: a call moves to the next step or settles
\* (the gate is skipped when the flag is set); the user turn is appended on
\* leaving context assembly and nowhere else; the assistant turn is appended
\* only after the loop has returned its step; and the metrics count a success
\* only in the step that appended the assistant turn, with the history as it
\* is after that append
C31_StepsInDocumentedOrder ==
    [][\A r \in {"A"} :
        LET from == stepOf(req[r].pc)
            to == stepOf(req'[r].pc)
        IN  /\ to \in {from, from + 1, 8} \/ (from = 0 /\ to = 2 /\ isInitialized)
            /\ appendedNow("user", r) <=> (from = 3 /\ to # 3)
            /\ appendedNow("assistant", r) <=> (from = 7 /\ to = 8)
            /\ from = 7 => req[r].responseStep # Null /\ req[r].analysis # Null
            /\ calls'.successful # calls.successful <=> appendedNow("assistant", r)
            /\ appendedNow("assistant", r) =>
                  metrics' = updateMetrics(metrics, req[r].startTime, TRUE, history')]_vars

\* C31, its case: a request went through every step, its loop executed a tool
\* call before the final reply, and both turns are in the log in this order
C31_Witness ==
    /\ req["A"].pc = "done"
    /\ req["A"].outcome = "returned"
    /\ req["A"].llmCalls = 2
    /\ req["A"].stored
    /\ calls.successful = 1
    /\ Len(appended) = 2
    /\ appended[1].role = "user"
    /\ appended[2].role = "assistant"
    /\ appended[2].content = req["A"].response.content

\* the step in which updateClusteringIfNeeded() is called for the first time
refreshCalled == req["R"].pc = "idle" /\ req'["R"].pc # "idle"

\* C32: on a runtime with a memory engine, a refresh invokes the clustering
\* routine exactly when clustering is enabled and the time since lastUpdate is
\* not less than the interval, the interval itself included; and when the
\* invocation succeeds clusters takes its result and lastUpdate the time of
\* the clock
C32_RefreshWhenIntervalElapsed ==
    /\ [][refreshCalled /\ memory # 0 =>
             (req'["R"].pc = "updateClusters" <=>
                 clusteringEnabled /\ now - lastClusteringUpdate >= updateInterval)]_vars
    /\ [][req["R"].pc = "updateClusters" /\ req'["R"].pc = "done" =>
             \/ clusters' \in ClusterCounts /\ lastClusteringUpdate' = now
             \/ UNCHANGED <<clusters, lastClusteringUpdate>>]_vars

\* the step in which a call enters the clustering bootstrap
bootstrapStarts(r) == req[r].pc # "createClusters" /\ req'[r].pc = "createClusters"

\* the step in which the createClusters of a call's bootstrap settles
bootstrapEnds(r) == req[r].pc = "createClusters" /\ req'[r].pc # "createClusters"

\* C33 as stated: the bootstrap runs once, right after the first successful
\* initialization of the runtime: it is entered only in the step that created
\* the runtime's first memory engine
C33_BootstrapRunsOnce ==
    [][\A r \in Tasks :
          bootstrapStarts(r) =>
              req[r].pc = "createMemoryInstance" /\ memoryInstances' = 1]_vars

\* C33, amended: the bootstrap is entered only in the step in which a call's memory
\* engine was created, and not again once an initialization is over and none
\* is in flight; whether its createClusters resolves or rejects, initialize()
\* ends without an error, with the executors populated, and the call goes on;
\* a rejection switches clustering off, and no call starts a related-cluster
\* lookup while it is off
C33_BootstrapFailureIsLatched ==
    /\ [][\A r \in Tasks :
             bootstrapStarts(r) =>
                 req[r].pc = "createMemoryInstance" /\ isInitialized' /\ memory' # 0]_vars
    /\ [][isInitialized /\ (\A q \in Tasks : ~initializing(req[q])) =>
             \A r \in Tasks : ~bootstrapStarts(r)]_vars
    /\ [][\A r \in Tasks :
             bootstrapEnds(r) =>
                 /\ req'[r].pc = afterInitialize(r)
                 /\ req'[r].thrown = Null
                 /\ isInitialized'
                 /\ toolExecutors' = ToolExecutorNames
                 /\ \/ ~clusteringEnabled' /\ UNCHANGED <<clusters, lastClusteringUpdate>>
                    \/ clusteringEnabled' = clusteringEnabled /\ lastClusteringUpdate' = now]_vars
    /\ [][\A r \in Requests :
             req[r].pc # "findRelatedClusters" /\ req'[r].pc = "findRelatedClusters" =>
                 clusteringEnabled]_vars

\* C33, its case: the bootstrap of the initialization A triggered failed, and A
\* was answered normally on a runtime with its executors and clustering off
C33_Witness ==
    /\ ~clusteringEnabled
    /\ memoryInstances = 1
    /\ toolExecutors = ToolExecutorNames
    /\ calls = [total |-> 1, successful |-> 1]
    /\ req["A"].outcome = "returned"
    /\ req["A"].thrown = Null
    /\ req["A"].response.content = "the answer"
    /\ req["B"].pc = "idle"
    /\ req["I"].pc = "idle"

\* the step in which clear() empties a log that held messages
logCleared == appended # <<>> /\ appended' = <<>>

assistantTurn(r) ==
    [role |-> "assistant", content |-> req[r].response.content, session |-> r]

\* the call failed before its user turn was recorded: at the initialization
\* gate or in input normalization
failedBeforeUserTurn(rq) == rq.thrown \in {Some(InitFailedMessage), Some(InputTypeError)}

\* C36: a call that returned its response has appended its user turn and then
\* the assistant turn carrying the response content, and nothing else; a call
\* that failed after its user turn was recorded has appended the user turn
\* only, so the log ends with it and the apology is in no message; a call that
\* failed at the gate or in input normalization has appended nothing
C36_AppendsPerRequest ==
    req["A"].pc = "done" =>
        /\ req["A"].thrown = Null => appended = <<userTurn("A"), assistantTurn("A")>>
        /\ req["A"].thrown # Null /\ ~failedBeforeUserTurn(req["A"]) =>
              /\ appended = <<userTurn("A")>>
              /\ history = appended
              /\ req["A"].response = ErrorResponse(req["A"].thrown[1])
        /\ failedBeforeUserTurn(req["A"]) =>
              /\ appended = <<>>
              /\ req["A"].response = ErrorResponse(req["A"].thrown[1])

\* C36, its case: the LLM call of the request failed after a tool call had
\* been executed; the apology was returned and the log holds the user turn only
C36_Witness ==
    /\ req["A"].pc = "done"
    /\ req["A"].thrown = Some(LLMFailedMessage)
    /\ req["A"].llmCalls = 2
    /\ req["A"].response = ErrorResponse(LLMFailedMessage)
    /\ history = <<userTurn("A")>>

\* the call has passed the initialization gate and has not settled
pastTheGate(rq) == stepOf(rq.pc) \in 2..7

\* C37: whenever a request is past the initialization gate the executor map
\* holds every entry of TOOL_EXECUTORS, so no tool call is executed against an
\* unpopulated map
C37_ExecutorsPopulatedPastTheGate ==
    \A r \in Requests : pastTheGate(req[r]) => toolExecutors = ToolExecutorNames

\* C37, the failing case: a request is about to execute a tool call while the
\* initialization another request began is still in its bootstrap and the
\* executor map is empty
C37_ToolCallBeforeExecutors ==
    \E r, q \in Requests :
        /\ req[r].pc = "toolCall"
        /\ req[q].pc = "createClusters"
        /\ toolExecutors = {}

\* C38: while the flag is set the runtime has a memory engine, and an engine
\* once in place is never taken away; hence a request past the gate has one,
\* its memory write is entered on leaving the recording of the user turn, and
\* its analysis is never the error step of a missing engine
C38_InitializedImpliesMemory ==
    /\ [](isInitialized => memory # 0)
    /\ [][memory # 0 => memory' # 0]_vars
    /\ [][isInitialized => isInitialized']_vars
    /\ [](\A r \in Requests :
             /\ pastTheGate(req[r]) => memory # 0
             /\ req[r].analysis # Null => req[r].analysis[1].type = "analysis")
    /\ [][\A r \in Requests :
             stepOf(req[r].pc) = 3 /\ stepOf(req'[r].pc) # 3 =>
                 req'[r].pc = "store_generateEmbeddings"]_vars

\* C38, its case: clear() has run on the initialized runtime while a request
\* that wrote to the memory engine is in its analysis, about to query it
C38_Witness ==
    /\ isInitialized
    /\ memory # 0
    /\ history = <<>>
    /\ req["A"].stored
    /\ req["A"].pc = "queryMemory"

=============================================================================
